---- MODULE Spec2Model ----
(***************************************************************************)
(* Ingestion - validation - dual write - broadcast pipeline of the MQTT    *)
(* position tracking backend, and the viewer gateway (rooms per race).     *)
(*                                                                         *)
(* Numbers: a coordinate is the record [t |-> "number", deg, frac] that    *)
(* stands for deg + frac * 10^-8 degrees with 0 <= frac < 10^8, so that    *)
(* values finer than the durable column's 7 decimals can be told apart.    *)
(* Times are integers in milliseconds.                                     *)
(***************************************************************************)
EXTENDS Integers, Sequences, FiniteSets, TLC

\* ------------------------------------------------------------------ bounds
MaxRuns == 2        \* messages delivered by the broker in one behaviour
MaxConns == 2       \* viewer connections
MaxEmits == 1       \* broadcasts issued in one gateway behaviour

\* ------------------------------------------------------- program constants
staleDataThresholdMs == 30000
CacheTtlSeconds == 3600
Scale7 == 10000000     \* 10^7: the durable column keeps 7 decimals
Frac8 == Scale7 * 10   \* 10^8: units of frac per degree

\* --------------------------------------------------------- JavaScript values
JUndef == [t |-> "undefined"]
JStr(s) == [t |-> "string", v |-> s]
JNum(d, f) == [t |-> "number", deg |-> d, frac |-> f]
IsStr(x) == x.t = "string"
IsNum(x) == x.t = "number"

\* a < d and a > d for a coordinate a and a whole number of degrees d
NumLt(a, d) == a.deg < d
\* mutant: compares whole degrees only
NumGt_WholeDegrees(a, d) == a.deg > d
NumGt(a, d) == a.deg > d \/ (a.deg = d /\ a.frac > 0)

\* A timestamp string is abstracted by its form and, when it denotes an
\* instant, the instant in ms:
\*   "z"         2025-07-01T08:15:30Z           (UTC designator)
\*   "offset"    2025-07-01T15:15:30+07:00      (numeric offset)
\*   "shapeonly" 2025-13-01T08:15:30Z           (digits in place, no such date)
\*   "garbage"   yesterday
TsStr(form, ms) == JStr([form |-> form, ms |-> ms])

\* ------------------------------------------------------------ the build
\* Two implementations of the pipeline are in the repository: the pipe/flatMap
\* one validates with the zod schema, the generator one with the Effect schema.
\* zod's datetime() is taken as in its current releases, which check the
\* calendar as well as the shape of the string.
Builds == {[impl |-> "gen"], [impl |-> "pipe"]}

\* --------------------------------------------------- structural validation
ParticipantStatusSchema(x) ==
  IsStr(x) /\ x.v \in {"moving", "stopped", "finished", "disqualified"}

\* mutant: any string passes
NonEmptyString_AnyString(x) == IsStr(x)

NonEmptyString(x) == IsStr(x) /\ x.v # ""

\* mutant: the schema asks for a number and leaves the range to stage 3
LatitudeSchema_AnyNumber(x) == IsNum(x)

LatitudeSchema(x) == IsNum(x) /\ ~NumLt(x, -90) /\ ~NumGt(x, 90)

LongitudeSchema(x) == IsNum(x) /\ ~NumLt(x, -180) /\ ~NumGt(x, 180)

\* Effect schema: a regular expression over the digits, Z or a numeric offset
DateTimeString(x) == IsStr(x) /\ x.v.form \in {"z", "offset", "shapeonly"}

\* zod: z.string().datetime(), no offsets allowed by default
ZodDatetime(x) == IsStr(x) /\ x.v.form = "z"

TrackingPayloadSchema(b, raw) ==
  /\ raw.t = "object"
  /\ NonEmptyString(raw.participant_id)
  /\ NonEmptyString(raw.race_id)
  /\ LatitudeSchema(raw.latitude)
  /\ LongitudeSchema(raw.longitude)
  /\ IF b.impl = "gen" THEN DateTimeString(raw.timestamp)
                       ELSE ZodDatetime(raw.timestamp)
  /\ ParticipantStatusSchema(raw.status)

validatePayload(b, raw) == TrackingPayloadSchema(b, raw)

\* new Date(timestamp).getTime(): NaN unless the string denotes an instant
parseTimestamp(ts) ==
  IF ts.v.form \in {"z", "offset"} THEN [ok |-> TRUE, ms |-> ts.v.ms]
                                   ELSE [ok |-> FALSE, ms |-> 0]

validateCoordinates(latitude, longitude) ==
  /\ ~(NumLt(latitude, -90) \/ NumGt(latitude, 90))
  /\ ~(NumLt(longitude, -180) \/ NumGt(longitude, 180))

\* mutant: an age equal to the threshold counts as stale
checkStaleData_AtThreshold(timestampMs, now, thresholdMs) ==
  ~(now - timestampMs >= thresholdMs)

\* mutant: a timestamp further from the clock than the threshold, on either
\* side, is refused
checkStaleData_EitherSide(timestampMs, now, thresholdMs) ==
  ~(now - timestampMs > thresholdMs \/ timestampMs - now > thresholdMs)

\* TRUE when the data is fresh enough to be kept
checkStaleData(timestampMs, now, thresholdMs) ==
  ~(now - timestampMs > thresholdMs)

transformToProcessedPosition(payload, clientTimestamp, now) ==
  [ participantId |-> payload.participant_id.v,
    raceId |-> payload.race_id.v,
    latitude |-> payload.latitude,
    longitude |-> payload.longitude,
    clientTimestamp |-> clientTimestamp,
    serverReceivedAt |-> now,
    status |-> payload.status.v ]

\* mutant: the update is stamped with the server's receive time
transformToPositionUpdate_ServerTime(position) ==
  [ participantId |-> position.participantId,
    raceId |-> position.raceId,
    latitude |-> position.latitude,
    longitude |-> position.longitude,
    timestamp |-> position.serverReceivedAt,
    serverReceivedAt |-> position.serverReceivedAt,
    status |-> position.status ]

transformToPositionUpdate(position) ==
  [ participantId |-> position.participantId,
    raceId |-> position.raceId,
    latitude |-> position.latitude,
    longitude |-> position.longitude,
    timestamp |-> position.clientTimestamp,
    serverReceivedAt |-> position.serverReceivedAt,
    status |-> position.status ]

NoPosition == [t |-> "none"]

\* mutant: the staleness check runs first on whatever timestamp it can read
processTrackingData_StaleFirst(b, raw, now) ==
  IF /\ raw.t = "object" /\ IsStr(raw.timestamp)
     /\ parseTimestamp(raw.timestamp).ok
     /\ ~checkStaleData(parseTimestamp(raw.timestamp).ms, now, staleDataThresholdMs)
  THEN [tag |-> "StaleDataError", position |-> NoPosition]
  ELSE IF ~validatePayload(b, raw)
  THEN [tag |-> "PayloadValidationError", position |-> NoPosition]
  ELSE IF ~parseTimestamp(raw.timestamp).ok
  THEN [tag |-> "TimestampParseError", position |-> NoPosition]
  ELSE IF ~validateCoordinates(raw.latitude, raw.longitude)
  THEN [tag |-> "InvalidCoordinatesError", position |-> NoPosition]
  ELSE [tag |-> "none",
        position |-> transformToProcessedPosition(raw, parseTimestamp(raw.timestamp).ms, now)]

\* Stages 1 to 5 of processTrackingData, which run without suspending:
\* the tag of the first failing stage, or "none" and the processed position.
processTrackingData(b, raw, now) ==
  IF ~validatePayload(b, raw)
  THEN [tag |-> "PayloadValidationError", position |-> NoPosition]
  ELSE LET clientTimestamp == parseTimestamp(raw.timestamp) IN
    IF ~clientTimestamp.ok
    THEN [tag |-> "TimestampParseError", position |-> NoPosition]
    ELSE IF ~validateCoordinates(raw.latitude, raw.longitude)
    THEN [tag |-> "InvalidCoordinatesError", position |-> NoPosition]
    ELSE IF ~checkStaleData(clientTimestamp.ms, now, staleDataThresholdMs)
    THEN [tag |-> "StaleDataError", position |-> NoPosition]
    ELSE [tag |-> "none",
          position |-> transformToProcessedPosition(raw, clientTimestamp.ms, now)]

\* the logger call processTrackingDataWithLogging makes for a rejection
LogLevel(tag) ==
  CASE tag = "none" -> "debug"
    [] tag = "StorageError" -> "error"
    [] OTHER -> "warn"

\* ------------------------------------------------------------------ stores
\* RedisService.getPositionKey
getPositionKey(key) ==
  "race:" \o key.raceId \o ":participant:" \o key.participantId \o ":last"

\* date.toISOString(): always the UTC form, to the millisecond
toISOString(ms) == [form |-> "z", ms |-> ms]

\* JSON.stringify(position): numbers and strings as they are, dates as ISO text
JSONstringify(position) ==
  [ participantId |-> position.participantId,
    raceId |-> position.raceId,
    latitude |-> position.latitude,
    longitude |-> position.longitude,
    clientTimestamp |-> toISOString(position.clientTimestamp),
    serverReceivedAt |-> toISOString(position.serverReceivedAt),
    status |-> position.status ]

\* mutant: the key leaves the participant out
setLastPosition_RaceKey(c, key, position) ==
  (("race:" \o key.raceId \o ":last") :>
     [value |-> JSONstringify(position), ex |-> CacheTtlSeconds]) @@ c

\* mutant: an entry with a later client timestamp is not overwritten
setLastPosition_KeepNewest(c, key, position) ==
  IF /\ getPositionKey(key) \in DOMAIN c
     /\ c[getPositionKey(key)].value.clientTimestamp.ms > position.clientTimestamp
  THEN c
  ELSE (getPositionKey(key) :> [value |-> JSONstringify(position), ex |-> CacheTtlSeconds]) @@ c

\* client.set(redisKey, JSON.stringify(position), 'EX', 3600)
setLastPosition(c, key, position) ==
  (getPositionKey(key) :> [value |-> JSONstringify(position), ex |-> CacheTtlSeconds]) @@ c

\* decimal(10, 7): the column rounds String(x) to 7 decimals, half away from zero
Decimal7(x) ==
  LET q == x.frac \div (Frac8 \div Scale7)
      r == x.frac % (Frac8 \div Scale7)
      up == r > 5 \/ (r = 5 /\ x.deg >= 0)
      q1 == IF up THEN q + 1 ELSE q
  IN IF q1 = Scale7 THEN JNum(x.deg + 1, 0)
                    ELSE JNum(x.deg, q1 * (Frac8 \div Scale7))

\* the row that insert(trackingPositions).values({...}).returning() stores;
\* id is the column's defaultRandom() uuid
NewRow(id, position) ==
  [ id |-> id,
    participantId |-> position.participantId,
    raceId |-> position.raceId,
    latitude |-> Decimal7(position.latitude),
    longitude |-> Decimal7(position.longitude),
    clientTimestamp |-> position.clientTimestamp,
    serverReceivedAt |-> position.serverReceivedAt,
    status |-> position.status ]

save(rs, id, position) == Append(rs, NewRow(id, position))

\* the StorageError operation each dependency of createEffectsDeps reports
saveToRedisOperation == "setLastPosition"
\* mutant: forwards the repository's own operation name, as saveToRedis does
saveToPostgresOperation_Forwarded == "save"
saveToPostgresOperation == "saveToPostgres"

\* ------------------------------------------------------- inbound messages
Races == {"R1", "R2"}
Uuids == 1..MaxRuns
\* the server clock starts at Epoch0 + threshold; a report stamped Epoch0 is
\* then exactly as old as the threshold, one stamped FutureMs lies ahead of
\* the clock by about twice the threshold
Epoch0 == 0
Times == {Epoch0 + staleDataThresholdMs, Epoch0 + staleDataThresholdMs + 1}
FutureMs == Epoch0 + 3 * staleDataThresholdMs

Lat0 == JNum(45, 12345678)
Lon0 == JNum(112, 61450000)

BasePayload(rid, pid, ms) ==
  [ t |-> "object",
    participant_id |-> JStr(pid),
    race_id |-> JStr(rid),
    latitude |-> Lat0,
    longitude |-> Lon0,
    timestamp |-> TsStr("z", ms),
    status |-> JStr("moving") ]

P0 == BasePayload("R1", "P1", Epoch0)

\* what JSON.parse yields for the bytes of a message: a syntax error, a value
\* that is no object, or an object with the six fields
Messages ==
  {BasePayload(r, "P1", Epoch0) : r \in Races}
  \cup {BasePayload("R1", "P1", FutureMs)}
  \cup {[P0 EXCEPT !.latitude = x] :
          x \in {JNum(-90, 0), JNum(90, 1), JNum(-91, 99999999),
                 JNum(200, 0), JStr("north")}}
  \cup {[P0 EXCEPT !.longitude = x] :
          x \in {JNum(180, 0), JNum(180, 1), JNum(-181, 0)}}
  \cup {[P0 EXCEPT !.latitude = JNum(200, 0), !.longitude = JNum(-181, 0)]}
  \cup {[P0 EXCEPT !.timestamp = x] :
          x \in {TsStr("garbage", Epoch0), TsStr("shapeonly", Epoch0),
                 TsStr("offset", Epoch0), JUndef}}
  \cup {[P0 EXCEPT !.participant_id = x] : x \in {JStr(""), JStr("P2")}}
  \cup {[P0 EXCEPT !.status = JStr("flying")]}
  \cup {[t |-> "notjson"], [t |-> "null"]}

\* -------------------------------------------------------------------- state
VARIABLES
  build,              \* which implementation of the pipeline is deployed
  now,                \* the server clock, ms
  handlerRegistered,  \* MqttSubscriber's 'message' handler is in place
  crashed,            \* the process died of an unhandled rejection
  runs,               \* one handleMessage call per delivered message
  cache,              \* redis: key -> [value, ex]
  cacheWriter,        \* key -> the run whose SET landed last
  rows,               \* tracking_positions, in insert order
  subscribedClients,  \* RealtimeGateway.subscribedClients: socket id -> raceIds
  rooms,              \* socket.io adapter: room name -> socket ids
  handshake,          \* what each connected socket presented as credential
  emitted,            \* server.to(room).emit calls, in order
  inbox,              \* per socket: indexes of emitted it received
  wsReply,            \* the gateway request handled last and its response
  clients,            \* the mqtt.js clients mqtt.connect has created, in order
  client,             \* MqttClient.client: index into clients, null when none
  isConnected,        \* MqttClient.isConnected
  reconnectAttempts,  \* MqttClient.reconnectAttempts
  connectionPromise,  \* MqttClient.connectionPromise: index into promises or null
  promises,           \* the promise connect() made for each client
  mqttEvent,          \* the MqttClient call or broker event handled last
  batch,              \* one batchProcessTrackingData call
  repository,         \* the TrackingRepository query or deletion made last
  subscriber          \* MqttSubscriber: broker subscriptions and the call made last

pipelineVars == <<build, now, handlerRegistered, crashed, runs, cache, cacheWriter, rows>>
gatewayVars == <<subscribedClients, rooms, handshake, emitted, inbox, wsReply>>
mqttVars == <<clients, client, isConnected, reconnectAttempts, connectionPromise,
              promises, mqttEvent>>
serviceVars == <<repository, subscriber>>
vars == <<pipelineVars, gatewayVars, mqttVars, batch, serviceVars>>

RunIds == 1..MaxRuns
Conns == 1..MaxConns

IdleRun ==
  [ pc |-> "idle", msg |-> [t |-> "none"], now |-> 0, tag |-> "none",
    operation |-> "none", level |-> "none", position |-> NoPosition,
    redis |-> "none", pg |-> "none", broadcast |-> "no", returned |-> "none" ]

\* ------------------------------------------------------- socket.io rooms
Members(rs, name) == IF name \in DOMAIN rs THEN rs[name] ELSE {}

\* socket.join(room)
join(rs, c, name) == (name :> (Members(rs, name) \cup {c})) @@ rs

\* mutant: the socket stays in the room
leave_Stay(rs, c, name) == rs

\* socket.leave(room): a room that loses its last member is deleted
leave(rs, c, name) ==
  IF Members(rs, name) \subseteq {c}
  THEN [n \in DOMAIN rs \ {name} |-> rs[n]]
  ELSE [rs EXCEPT ![name] = @ \ {c}]

\* the adapter's delAll when a socket closes, before 'disconnect' is emitted
leaveAll(rs, c) ==
  LET keep == {n \in DOMAIN rs : rs[n] \ {c} # {}}
  IN [n \in keep |-> rs[n] \ {c}]

\* mutant: one room for all races
roomName_Shared(raceId) == "race:"

roomName(raceId) == "race:" \o raceId

\* server.to(roomName).emit(event, data): every socket in the room gets it
emit(name, event, data) ==
  /\ emitted' = Append(emitted, [event |-> event, room |-> name, data |-> data])
  /\ inbox' = [c \in DOMAIN inbox |->
                 IF c \in Members(rooms, name) THEN inbox[c] \cup {Len(emitted) + 1}
                                               ELSE inbox[c]]

PositionWire(update) ==
  [ participantId |-> update.participantId,
    raceId |-> update.raceId,
    latitude |-> update.latitude,
    longitude |-> update.longitude,
    timestamp |-> toISOString(update.timestamp),
    status |-> update.status ]

\* RealtimeGateway.broadcastPositionUpdate
broadcastPositionUpdate(update) ==
  emit(roomName(update.raceId), "position_update", PositionWire(update))

BatchWire(update) ==
  [ participantId |-> update.participantId,
    latitude |-> update.latitude,
    longitude |-> update.longitude,
    timestamp |-> toISOString(update.timestamp),
    status |-> update.status ]

\* mutant: only the updates of the race named are put into the event
broadcastBatchPositionUpdate_OwnRace(raceId, updates) ==
  LET own == SelectSeq(updates, LAMBDA u : u.raceId = raceId) IN
  emit(roomName(raceId), "batch_position_update",
       [ raceId |-> raceId,
         positions |-> [k \in DOMAIN own |-> BatchWire(own[k])] ])

\* RealtimeGateway.broadcastBatchPositionUpdate
broadcastBatchPositionUpdate(raceId, updates) ==
  emit(roomName(raceId), "batch_position_update",
       [ raceId |-> raceId,
         positions |-> [k \in DOMAIN updates |-> BatchWire(updates[k])] ])

\* --------------------------------------------------------------------- Init
\* MqttClient: no client, no promise
null == 0
NoEvent ==
  [ kind |-> "none", client |-> null, emits |-> << >>, returned |-> null,
    opened |-> FALSE, sent |-> FALSE, acked |-> FALSE, result |-> "none" ]
NoBatch == [status |-> "none", payloads |-> << >>, result |-> << >>]
NoCall == [calls |-> 0, op |-> "none", arg |-> null, tag |-> "none", returned |-> null]
NoRaceCall == [op |-> "none", raceId |-> "", topic |-> "", sent |-> FALSE, result |-> "none"]
\* MqttSubscriber before onModuleInit: nothing subscribed, the topics not read
\* no 'message' event forwarded yet
NoInbound == [topic |-> "", handled |-> FALSE]
\* messageHandler: setupMessageHandler has registered the 'message' listener
\* (handlerRegistered is its value once start-up is over, where the pipeline
\* begins); inbound: the last 'message' event MqttClient forwarded
NoSubscriber ==
  [ topics |-> << >>, subscriptions |-> {}, setup |-> "none", teardown |-> "none",
    next |-> 0, attempted |-> {}, raised |-> FALSE, call |-> NoRaceCall,
    messageHandler |-> FALSE, inbound |-> NoInbound ]

NoReply == [conn |-> 0, event |-> "none", data |-> JUndef, response |-> [event |-> "none"]]

Init ==
  /\ build \in Builds
  /\ now = Epoch0 + staleDataThresholdMs
  /\ handlerRegistered = TRUE
  /\ crashed = FALSE
  /\ runs = [i \in RunIds |-> IdleRun]
  /\ cache = << >>
  /\ cacheWriter = << >>
  /\ rows = << >>
  /\ subscribedClients = << >>
  /\ rooms = << >>
  /\ handshake = << >>
  /\ emitted = << >>
  /\ inbox = [c \in Conns |-> {}]
  /\ wsReply = NoReply
  /\ clients = << >>
  /\ client = null
  /\ isConnected = FALSE
  /\ reconnectAttempts = 0
  /\ connectionPromise = null
  /\ promises = << >>
  /\ mqttEvent = NoEvent
  /\ batch = NoBatch
  /\ repository = NoCall
  /\ subscriber = NoSubscriber

\* ------------------------------------------------------ ingestion pipeline
Tick ==
  /\ \E t \in Times : t > now /\ now' = t
  /\ UNCHANGED <<build, handlerRegistered, crashed, runs, cache, cacheWriter, rows, gatewayVars, mqttVars, batch, serviceVars>>

\* mutant: no .catch, the rejection is unhandled and ends the process
catchHandleMessageError_Missing(c) == TRUE

\* the .catch of setupMessageHandler logs the error: the process lives on
catchHandleMessageError(c) == c

\* mqttClient.on('message', ...): the listener stays after each delivery
on(h) == h

KeyOf(position) == [raceId |-> position.raceId, participantId |-> position.participantId]

\* The broker delivers a message: JSON.parse, then stages 1 to 5, then both
\* store writes are issued (Effect.all, concurrency 2).
HandleMessage(i, m) ==
  /\ handlerRegistered /\ ~crashed
  /\ runs[i].pc = "idle"
  /\ \A j \in RunIds : j < i => runs[j].pc # "idle"
  /\ LET out == processTrackingData(build, m, now) IN
       runs' = [runs EXCEPT ![i] =
         IF m.t = "notjson"
         THEN [IdleRun EXCEPT !.pc = "dropped", !.msg = m, !.now = now, !.level = "warn"]
         ELSE IF out.tag # "none"
         THEN [IdleRun EXCEPT !.pc = "rejected", !.msg = m, !.now = now,
                 !.tag = out.tag, !.level = LogLevel(out.tag), !.returned = "null"]
         ELSE [IdleRun EXCEPT !.pc = "writing", !.msg = m, !.now = now,
                 !.position = out.position, !.redis = "pending", !.pg = "pending"]]
  /\ handlerRegistered' = on(handlerRegistered)
  /\ UNCHANGED <<build, now, crashed, cache, cacheWriter, rows, gatewayVars, mqttVars, batch, serviceVars>>

\* The first write to fail fails Effect.all: the sibling fiber is interrupted
\* and the run ends in a StorageError that catchTags turns into null.
StorageFailure(r, operation) ==
  [r EXCEPT !.pc = "rejected", !.tag = "StorageError", !.operation = operation,
            !.level = LogLevel("StorageError"), !.returned = "null"]

RedisSetOk(i) ==
  /\ runs[i].pc = "writing" /\ runs[i].redis = "pending"
  /\ cache' = setLastPosition(cache, KeyOf(runs[i].position), runs[i].position)
  /\ cacheWriter' = (getPositionKey(KeyOf(runs[i].position)) :> i) @@ cacheWriter
  /\ runs' = [runs EXCEPT ![i].redis = "ok"]
  /\ UNCHANGED <<build, now, handlerRegistered, crashed, rows, gatewayVars, mqttVars, batch, serviceVars>>

RedisSetFail(i) ==
  /\ runs[i].pc = "writing" /\ runs[i].redis = "pending"
  /\ runs' = [runs EXCEPT ![i] =
       [StorageFailure(@, saveToRedisOperation) EXCEPT
          !.redis = "failed",
          !.pg = IF @ = "pending" THEN "interrupted" ELSE @]]
  /\ UNCHANGED <<build, now, handlerRegistered, crashed, cache, cacheWriter, rows, gatewayVars, mqttVars, batch, serviceVars>>

\* the SET of an interrupted fiber was already sent and may still land
RedisSetLate(i) ==
  /\ runs[i].redis = "interrupted"
  /\ cache' = setLastPosition(cache, KeyOf(runs[i].position), runs[i].position)
  /\ cacheWriter' = (getPositionKey(KeyOf(runs[i].position)) :> i) @@ cacheWriter
  /\ runs' = [runs EXCEPT ![i].redis = "landed"]
  /\ UNCHANGED <<build, now, handlerRegistered, crashed, rows, gatewayVars, mqttVars, batch, serviceVars>>

UsedIds == {rows[k].id : k \in DOMAIN rows}

PgInsertOk(i) ==
  /\ runs[i].pc = "writing" /\ runs[i].pg = "pending"
  /\ \E id \in Uuids \ UsedIds : rows' = save(rows, id, runs[i].position)
  /\ runs' = [runs EXCEPT ![i].pg = "ok"]
  /\ UNCHANGED <<build, now, handlerRegistered, crashed, cache, cacheWriter, gatewayVars, mqttVars, batch, serviceVars>>

PgInsertFail(i) ==
  /\ runs[i].pc = "writing" /\ runs[i].pg = "pending"
  /\ runs' = [runs EXCEPT ![i] =
       [StorageFailure(@, saveToPostgresOperation) EXCEPT
          !.pg = "failed",
          !.redis = IF @ = "pending" THEN "interrupted" ELSE @]]
  /\ UNCHANGED <<build, now, handlerRegistered, crashed, cache, cacheWriter, rows, gatewayVars, mqttVars, batch, serviceVars>>

\* the INSERT of an interrupted fiber was already sent and may still land
PgInsertLate(i) ==
  /\ runs[i].pg = "interrupted"
  /\ \E id \in Uuids \ UsedIds : rows' = save(rows, id, runs[i].position)
  /\ runs' = [runs EXCEPT ![i].pg = "landed"]
  /\ UNCHANGED <<build, now, handlerRegistered, crashed, cache, cacheWriter, gatewayVars, mqttVars, batch, serviceVars>>

\* mutant: goes on as soon as the cache write is back
DualWriteSucceeded_RedisOnly(r) == r.redis = "ok"

\* Effect.all has both results
DualWriteSucceeded(r) == r.redis = "ok" /\ r.pg = "ok"

\* Steps 7 and 8: derive the update, call the broadcast callback, return it
Broadcast(i) ==
  /\ runs[i].pc = "writing" /\ DualWriteSucceeded(runs[i])
  /\ broadcastPositionUpdate(transformToPositionUpdate(runs[i].position))
  /\ runs' = [runs EXCEPT ![i].pc = "done", ![i].broadcast = "sent",
                          ![i].level = LogLevel("none"), ![i].returned = "update"]
  /\ UNCHANGED <<build, now, handlerRegistered, crashed, cache, cacheWriter, rows,
                 subscribedClients, rooms, handshake, wsReply, mqttVars, batch, serviceVars>>

\* The callback throws inside Effect.sync: a defect, so runPromise and with it
\* handleMessage reject, and the .catch of setupMessageHandler logs it.
BroadcastThrows(i) ==
  /\ runs[i].pc = "writing" /\ DualWriteSucceeded(runs[i])
  /\ runs' = [runs EXCEPT ![i].pc = "threw", ![i].broadcast = "threw",
                          ![i].level = "error", ![i].returned = "rejects"]
  /\ crashed' = catchHandleMessageError(crashed)
  /\ UNCHANGED <<build, now, handlerRegistered, cache, cacheWriter, rows, gatewayVars, mqttVars, batch, serviceVars>>

Next ==
  \/ Tick
  \/ \E i \in RunIds, m \in Messages : HandleMessage(i, m)
  \/ \E i \in RunIds : RedisSetOk(i)
  \/ \E i \in RunIds : RedisSetFail(i)
  \/ \E i \in RunIds : RedisSetLate(i)
  \/ \E i \in RunIds : PgInsertOk(i)
  \/ \E i \in RunIds : PgInsertFail(i)
  \/ \E i \in RunIds : PgInsertLate(i)
  \/ \E i \in RunIds : Broadcast(i)
  \/ \E i \in RunIds : BroadcastThrows(i)

Spec == Init /\ [][Next]_vars

\* ------------------------------------------------------------ the gateway
\* WsAuthGuard.extractToken: handshake.auth.token when it is a non-empty string
extractToken(h) ==
  IF IsStr(h.auth) /\ h.auth.v # "" THEN h.auth ELSE JUndef

\* WsAuthGuard.validateToken
validateToken(token) == token.v # ""

\* WsAuthGuard.canActivate: no token is let through, a token must validate
canActivate(h) ==
  LET token == extractToken(h) IN
  IF token = JUndef THEN TRUE ELSE validateToken(token)

Credentials == {[auth |-> JUndef], [auth |-> JStr("tok")]}

\* Schema.decodeUnknownSync(SubscribeRaceSchema)(data) does not throw
SubscribeRaceSchema(data) == data.t = "object" /\ NonEmptyString(data.raceId)

SubscribeData ==
  {JUndef} \cup
  {[t |-> "object", raceId |-> x] :
     x \in {JUndef, JNum(7, 0), JStr(""), JStr("R1"), JStr("R2")}}

Connected(c) == c \in DOMAIN subscribedClients

\* mutant: clears the whole membership set
deleteRaceId_Clear(raceIds, raceId) == {}

\* subscribedClient.raceIds.delete(raceId)
deleteRaceId(raceIds, raceId) == raceIds \ {raceId}

InvalidRaceId(event) ==
  [event |-> event, success |-> FALSE, message |-> "Invalid race ID", raceId |-> JUndef]

\* mutant: success only when the connection was subscribed to the race
unsubscribeRaceResponse_IfMember(valid, raceId, raceIds) ==
  IF valid /\ raceId \in raceIds
  THEN [event |-> "unsubscribe_race_response", success |-> TRUE,
        message |-> "Unsubscribed from race " \o raceId, raceId |-> JStr(raceId)]
  ELSE InvalidRaceId("unsubscribe_race_response")

\* the value handleUnsubscribeRace returns
unsubscribeRaceResponse(valid, raceId, raceIds) ==
  IF valid
  THEN [event |-> "unsubscribe_race_response", success |-> TRUE,
        message |-> "Unsubscribed from race " \o raceId, raceId |-> JStr(raceId)]
  ELSE InvalidRaceId("unsubscribe_race_response")

\* the value handleSubscribeRace returns
subscribeRaceResponse(valid, raceId) ==
  IF valid
  THEN [event |-> "subscribe_race_response", success |-> TRUE,
        message |-> "Subscribed to race " \o raceId, raceId |-> JStr(raceId)]
  ELSE InvalidRaceId("subscribe_race_response")

NoResponse == [event |-> "none"]

handleConnection(c, h) ==
  /\ ~Connected(c)
  /\ subscribedClients' = (c :> {}) @@ subscribedClients
  /\ handshake' = (c :> h) @@ handshake
  /\ inbox' = [inbox EXCEPT ![c] = {}]
  /\ wsReply' = [conn |-> c, event |-> "connection", data |-> JUndef, response |-> NoResponse]
  /\ UNCHANGED <<pipelineVars, mqttVars, batch, serviceVars, rooms, emitted>>

\* client.leave(`race:${raceId}`) for every raceId of the set
leaveEach(rs, c, raceIds) ==
  LET names == {roomName(r) : r \in raceIds}
      keep == {n \in DOMAIN rs : ~(n \in names /\ rs[n] \subseteq {c})}
  IN [n \in keep |-> IF n \in names THEN rs[n] \ {c} ELSE rs[n]]

\* mutant: the entry of the connection is kept
deleteClient_Keep(sc, c) == sc

\* this.subscribedClients.delete(client.id)
deleteClient(sc, c) == [d \in DOMAIN sc \ {c} |-> sc[d]]

\* The socket closes: the adapter takes it out of its rooms, then the
\* 'disconnect' event runs handleDisconnect.
handleDisconnect(c) ==
  /\ Connected(c)
  /\ rooms' = leaveEach(leaveAll(rooms, c), c, subscribedClients[c])
  /\ subscribedClients' = deleteClient(subscribedClients, c)
  /\ handshake' = [d \in DOMAIN handshake \ {c} |-> handshake[d]]
  /\ wsReply' = [conn |-> c, event |-> "disconnect", data |-> JUndef, response |-> NoResponse]
  /\ UNCHANGED <<pipelineVars, mqttVars, batch, serviceVars, emitted, inbox>>

\* mutant: the handler runs when the guard refuses
UseGuards_Inverted(allowed) == ~allowed

\* @UseGuards(WsAuthGuard): the handler runs only when canActivate returned true
UseGuards(allowed) == allowed

Forbidden == [event |-> "exception", success |-> FALSE, message |-> "Forbidden resource", raceId |-> JUndef]

handleSubscribeRace(c, data) ==
  /\ Connected(c)
  /\ IF ~UseGuards(canActivate(handshake[c]))
     THEN /\ wsReply' = [conn |-> c, event |-> "subscribe_race", data |-> data,
                         response |-> Forbidden]
          /\ UNCHANGED <<rooms, subscribedClients>>
     ELSE IF ~SubscribeRaceSchema(data)
     THEN /\ wsReply' = [conn |-> c, event |-> "subscribe_race", data |-> data,
                         response |-> subscribeRaceResponse(FALSE, "")]
          /\ UNCHANGED <<rooms, subscribedClients>>
     ELSE /\ rooms' = join(rooms, c, roomName(data.raceId.v))
          /\ subscribedClients' = [subscribedClients EXCEPT ![c] = @ \cup {data.raceId.v}]
          /\ wsReply' = [conn |-> c, event |-> "subscribe_race", data |-> data,
                         response |-> subscribeRaceResponse(TRUE, data.raceId.v)]
  /\ UNCHANGED <<pipelineVars, mqttVars, batch, serviceVars, handshake, emitted, inbox>>

handleUnsubscribeRace(c, data) ==
  /\ Connected(c)
  /\ IF ~SubscribeRaceSchema(data)
     THEN /\ wsReply' = [conn |-> c, event |-> "unsubscribe_race", data |-> data,
                         response |-> unsubscribeRaceResponse(FALSE, "", subscribedClients[c])]
          /\ UNCHANGED <<rooms, subscribedClients>>
     ELSE /\ rooms' = leave(rooms, c, roomName(data.raceId.v))
          /\ subscribedClients' =
               [subscribedClients EXCEPT ![c] = deleteRaceId(@, data.raceId.v)]
          /\ wsReply' = [conn |-> c, event |-> "unsubscribe_race", data |-> data,
                         response |-> unsubscribeRaceResponse(TRUE, data.raceId.v,
                                                              subscribedClients[c])]
  /\ UNCHANGED <<pipelineVars, mqttVars, batch, serviceVars, handshake, emitted, inbox>>

\* RealtimeGateway.getActiveRaces: the union of every client's raceIds
getActiveRaces(sc) == UNION {sc[c] : c \in DOMAIN sc}

\* RealtimeGateway.getConnectedClientCount: subscribedClients.size
getConnectedClientCount(sc) == Cardinality(DOMAIN sc)

\* the updates other components hand to the gateway
UpdateOf(raceId) ==
  transformToPositionUpdate(
    transformToProcessedPosition(BasePayload(raceId, "P1", Epoch0), Epoch0,
                                 Epoch0 + staleDataThresholdMs))
Batches == {<<UpdateOf("R1")>>, <<UpdateOf("R2"), UpdateOf("R2")>>}

BroadcastPositionUpdate(update) ==
  /\ Len(emitted) < MaxEmits
  /\ broadcastPositionUpdate(update)
  /\ wsReply' = [conn |-> 0, event |-> "broadcast", data |-> JUndef, response |-> NoResponse]
  /\ UNCHANGED <<pipelineVars, mqttVars, batch, serviceVars, subscribedClients, rooms, handshake>>

BroadcastBatchPositionUpdate(raceId, updates) ==
  /\ Len(emitted) < MaxEmits
  /\ broadcastBatchPositionUpdate(raceId, updates)
  /\ wsReply' = [conn |-> 0, event |-> "broadcast", data |-> JUndef, response |-> NoResponse]
  /\ UNCHANGED <<pipelineVars, mqttVars, batch, serviceVars, subscribedClients, rooms, handshake>>

GatewayNext ==
  \/ \E c \in Conns, h \in Credentials : handleConnection(c, h)
  \/ \E c \in Conns : handleDisconnect(c)
  \/ \E c \in Conns, data \in SubscribeData : handleSubscribeRace(c, data)
  \/ \E c \in Conns, data \in SubscribeData : handleUnsubscribeRace(c, data)
  \/ \E r \in Races : BroadcastPositionUpdate(UpdateOf(r))
  \/ \E r \in Races, updates \in Batches : BroadcastBatchPositionUpdate(r, updates)

GatewaySpec == Init /\ [][GatewayNext]_vars

\* ------------------------------------------------------------- MqttClient
maxReconnectAttempts == 10
MaxClients == 2
\* the counter is followed this far past the cap
MaxReconnects == 12
Topics == {"tracking/+/position"}

\* what mqtt.connect returns, with the listeners connect() registers on it:
\* connectHandler and errorHandler with once(), the others with on()
newClient == [state |-> "connecting", connectArmed |-> TRUE, errorArmed |-> TRUE]

Live(k) == clients[k].state \in {"connecting", "connected", "reconnecting"}

\* MqttClient.connect(): the pending attempt if there is one, nothing to do
\* when connected, else a new mqtt.js client and a new promise
connect ==
  /\ ~crashed
  /\ IF connectionPromise # null
     THEN /\ mqttEvent' = [NoEvent EXCEPT !.kind = "connect()", !.client = client,
                                          !.returned = connectionPromise]
          /\ UNCHANGED <<clients, client, connectionPromise, promises>>
     ELSE IF isConnected /\ client # null
     THEN /\ mqttEvent' = [NoEvent EXCEPT !.kind = "connect()", !.client = client,
                                          !.result = "resolved"]
          /\ UNCHANGED <<clients, client, connectionPromise, promises>>
     ELSE /\ Len(clients) < MaxClients
          /\ clients' = Append(clients, newClient)
          /\ promises' = Append(promises, "pending")
          /\ client' = Len(clients) + 1
          /\ connectionPromise' = Len(promises) + 1
          /\ mqttEvent' = [NoEvent EXCEPT !.kind = "connect()", !.client = Len(clients) + 1,
                                          !.returned = Len(promises) + 1, !.opened = TRUE]
  /\ UNCHANGED <<isConnected, reconnectAttempts, pipelineVars, gatewayVars, batch, serviceVars>>

\* MqttClient.onModuleInit: the one connect() the application issues
OnModuleInit == Len(clients) = 0 /\ connect

\* any further caller of the public connect()
Connect == Len(clients) > 0 /\ connect

\* mqtt.js emits 'connect' on client k: connectHandler runs if once() still
\* holds it
LinkUp(k) ==
  /\ ~crashed /\ k \in DOMAIN clients
  /\ clients[k].state \in {"connecting", "reconnecting"}
  /\ IF clients[k].connectArmed
     THEN /\ isConnected' = TRUE
          /\ reconnectAttempts' = 0
          /\ promises' = [promises EXCEPT ![k] = IF @ = "pending" THEN "resolved" ELSE @]
          /\ mqttEvent' = [NoEvent EXCEPT !.kind = "connect", !.client = k,
                                          !.emits = <<"connected">>]
     ELSE /\ mqttEvent' = [NoEvent EXCEPT !.kind = "connect", !.client = k]
          /\ UNCHANGED <<isConnected, reconnectAttempts, promises>>
  /\ clients' = [clients EXCEPT ![k].state = "connected", ![k].connectArmed = FALSE]
  /\ UNCHANGED <<client, connectionPromise, pipelineVars, gatewayVars, batch, serviceVars>>

\* mqtt.js emits 'close' on client k: its stream closed, during an attempt or
\* after the connection was up; mqtt.js will retry after reconnectPeriod
LinkClose(k) ==
  /\ ~crashed /\ k \in DOMAIN clients
  /\ Live(k)
  /\ clients' = [clients EXCEPT ![k].state = "closed"]
  /\ isConnected' = FALSE
  /\ connectionPromise' = null
  /\ mqttEvent' = [NoEvent EXCEPT !.kind = "close", !.client = k,
                                  !.emits = <<"disconnected">>]
  /\ UNCHANGED <<client, reconnectAttempts, promises, pipelineVars, gatewayVars, batch, serviceVars>>

\* mutant: the cap is logged and the client keeps retrying
endForced_Noop(cs, c) == cs

\* this.client?.end(true): the client this.client names stops for good
endForced(cs, c) == IF c = null THEN cs ELSE [cs EXCEPT ![c].state = "ended"]

\* mqtt.js emits 'reconnect' on client k as it starts a new attempt
LinkReconnect(k) ==
  /\ ~crashed /\ k \in DOMAIN clients
  /\ clients[k].state = "closed"
  /\ reconnectAttempts < MaxReconnects
  /\ reconnectAttempts' = reconnectAttempts + 1
  /\ clients' =
       LET retrying == [clients EXCEPT ![k].state = "reconnecting"]
       IN IF reconnectAttempts + 1 >= maxReconnectAttempts
          THEN endForced(retrying, client)
          ELSE retrying
  /\ mqttEvent' = [NoEvent EXCEPT !.kind = "reconnect", !.client = k]
  /\ UNCHANGED <<client, isConnected, connectionPromise, promises,
                 pipelineVars, gatewayVars, batch, serviceVars>>

\* mqtt.js emits 'error' on client k. errorHandler (once) re-emits it on the
\* MqttClient, which has no 'error' listener: EventEmitter throws, the lines
\* after the emit do not run and the exception is uncaught. With errorHandler
\* already spent, the mqtt.js client itself has no 'error' listener.
LinkError(k) ==
  /\ ~crashed /\ k \in DOMAIN clients
  /\ Live(k)
  /\ clients' = [clients EXCEPT ![k].errorArmed = FALSE]
  /\ mqttEvent' = [NoEvent EXCEPT !.kind = "error", !.client = k,
                                  !.emits = IF clients[k].errorArmed THEN <<"error">> ELSE << >>,
                                  !.result = "uncaught"]
  /\ crashed' = TRUE
  /\ UNCHANGED <<client, isConnected, reconnectAttempts, connectionPromise, promises,
                 build, now, handlerRegistered, runs, cache, cacheWriter, rows,
                 gatewayVars, batch, serviceVars>>

\* MqttClient.disconnect(): end(false) closes the stream ('close' runs its
\* handler), then the callback clears the fields
Disconnect ==
  /\ ~crashed
  /\ IF client = null
     THEN /\ mqttEvent' = [NoEvent EXCEPT !.kind = "disconnect()", !.result = "resolved"]
          /\ UNCHANGED <<clients, client, isConnected, connectionPromise>>
     ELSE /\ clients' = [clients EXCEPT ![client].state = "ended"]
          /\ isConnected' = FALSE
          /\ connectionPromise' = null
          /\ client' = null
          /\ mqttEvent' = [NoEvent EXCEPT !.kind = "disconnect()", !.client = client,
                             !.emits = IF Live(client) THEN <<"disconnected">> ELSE << >>,
                             !.result = "resolved"]
  /\ UNCHANGED <<reconnectAttempts, promises, pipelineVars, gatewayVars, batch, serviceVars>>

\* mutant: only a missing client skips the unsubscribe
notConnected_ClientOnly(c, connected) == c = null

\* !(this.client && this.isConnected)
notConnected(c, connected) == ~(c # null /\ connected)

\* MqttClient.unsubscribe(topic): skipped when not connected, else sent; the
\* broker acknowledges it or the client reports an error
Unsubscribe(topic) ==
  /\ ~crashed
  /\ IF notConnected(client, isConnected)
     THEN mqttEvent' = [NoEvent EXCEPT !.kind = "unsubscribe()", !.client = client,
                                       !.result = "resolved"]
     ELSE \E ack \in BOOLEAN :
            mqttEvent' = [NoEvent EXCEPT !.kind = "unsubscribe()", !.client = client,
                            !.sent = TRUE, !.acked = ack,
                            !.result = IF ack THEN "resolved" ELSE "rejected"]
  /\ UNCHANGED <<clients, client, isConnected, reconnectAttempts, connectionPromise,
                 promises, pipelineVars, gatewayVars, batch, serviceVars>>

MqttNext ==
  \/ OnModuleInit
  \/ \E k \in 1..MaxClients : LinkUp(k)
  \/ \E k \in 1..MaxClients : LinkClose(k)
  \/ \E k \in 1..MaxClients : LinkReconnect(k)
  \/ \E k \in 1..MaxClients : LinkError(k)
  \/ Disconnect
  \/ \E topic \in Topics : Unsubscribe(topic)

\* the application as wired: connect() is called once, by onModuleInit
MqttSpec == Init /\ [][MqttNext]_vars

MqttApiNext ==
  \/ MqttNext
  \/ Connect

\* MqttClient as a class: connect() may be called again by any owner
MqttApiSpec == Init /\ [][MqttApiNext]_vars

\* ------------------------------------------------ batchProcessTrackingData
\* payloads: unknown[], values that are already parsed
BatchPayloads == {m \in Messages : m.t # "notjson"}
PayloadBatches == UNION {[1..n -> BatchPayloads] : n \in 1..MaxRuns}

BatchStart(payloads) ==
  /\ ~crashed
  /\ batch.status = "none"
  /\ \A i \in RunIds : runs[i].pc = "idle"
  /\ batch' = [status |-> "running", payloads |-> payloads, result |-> << >>]
  /\ UNCHANGED <<pipelineVars, gatewayVars, mqttVars, serviceVars>>

\* Effect.all starts processTrackingDataWithLogging for each payload in order;
\* each runs stages 1 to 5 and then issues both store writes
BatchItem(i) ==
  /\ batch.status = "running"
  /\ i \in DOMAIN batch.payloads
  /\ runs[i].pc = "idle"
  /\ \A j \in RunIds : j < i => runs[j].pc # "idle"
  /\ LET m == batch.payloads[i]
         out == processTrackingData(build, m, now) IN
       runs' = [runs EXCEPT ![i] =
         IF out.tag # "none"
         THEN [IdleRun EXCEPT !.pc = "rejected", !.msg = m, !.now = now,
                 !.tag = out.tag, !.level = LogLevel(out.tag), !.returned = "null"]
         ELSE [IdleRun EXCEPT !.pc = "writing", !.msg = m, !.now = now,
                 !.position = out.position, !.redis = "pending", !.pg = "pending"]]
  /\ UNCHANGED <<build, now, handlerRegistered, crashed, cache, cacheWriter, rows,
                 gatewayVars, mqttVars, batch, serviceVars>>

NullUpdate == [t |-> "null"]

\* mutant: the nulls of the rejected payloads stay in the result
filterNonNull_Identity(results) == results

\* results.filter((r) => r !== null)
filterNonNull(results) == SelectSeq(results, LAMBDA r : r # NullUpdate)

\* Effect.all has every result: the batch returns the updates
BatchReturn ==
  /\ batch.status = "running"
  /\ \A i \in DOMAIN batch.payloads : runs[i].returned \in {"null", "update"}
  /\ batch' = [batch EXCEPT !.status = "returned",
                 !.result = filterNonNull(
                   [i \in DOMAIN batch.payloads |->
                      IF runs[i].returned = "update"
                      THEN transformToPositionUpdate(runs[i].position)
                      ELSE NullUpdate])]
  /\ UNCHANGED <<pipelineVars, gatewayVars, mqttVars, serviceVars>>

\* a batch whose store writes all succeed
BatchNext ==
  \/ \E payloads \in PayloadBatches : BatchStart(payloads)
  \/ \E i \in RunIds : BatchItem(i)
  \/ Tick
  \/ \E i \in RunIds : RedisSetOk(i)
  \/ \E i \in RunIds : PgInsertOk(i)
  \/ \E i \in RunIds : Broadcast(i)
  \/ BatchReturn

BatchSpec == Init /\ [][BatchNext]_vars

\* ----------------------------------------------------------- MqttSubscriber
\* configService.mqtt.topics: MQTT_TOPICS split at the commas; the default,
\* and a deployment that also lists the pattern of race R1
TopicConfigs ==
  { <<"tracking/+/position">>,
    <<"tracking/+/position", "tracking/R1/+/position">> }

\* MqttSubscriber.getRaceTopicPattern
getRaceTopicPattern(raceId) == "tracking/" \o raceId \o "/+/position"

\* every topic filter the subscriber can hold: the configured ones and the
\* per-race ones
TopicFilters ==
  UNION {{topics[k] : k \in DOMAIN topics} : topics \in TopicConfigs}
    \cup {getRaceTopicPattern(raceId) : raceId \in Races}

\* MqttClient.subscribe(topic) on the subscriptions subs: without a
\* connection waitForConnection ends in its timeout; otherwise SUBSCRIBE is
\* sent and the callback has an error or the grant
subscribe(subs, topic, c, connected, ack) ==
  IF ~connected \/ c = null
  THEN [subscriptions |-> subs, sent |-> FALSE, result |-> "rejected"]
  ELSE IF ack
  THEN [subscriptions |-> subs \cup {topic}, sent |-> TRUE, result |-> "resolved"]
  ELSE [subscriptions |-> subs, sent |-> TRUE, result |-> "rejected"]

\* MqttClient.unsubscribe(topic) on the subscriptions subs
unsubscribe(subs, topic, c, connected, ack) ==
  IF notConnected(c, connected)
  THEN [subscriptions |-> subs, sent |-> FALSE, result |-> "resolved"]
  ELSE IF ack
  THEN [subscriptions |-> subs \ {topic}, sent |-> TRUE, result |-> "resolved"]
  ELSE [subscriptions |-> subs, sent |-> TRUE, result |-> "rejected"]

subscriberFrame ==
  UNCHANGED <<pipelineVars, gatewayVars, mqttVars, batch, repository>>

\* MqttSubscriber.onModuleInit, which Nest runs once MqttClient's own
\* onModuleInit is through: setupSubscriptions reads the configured topics
SetupSubscriptions(topics) ==
  /\ ~crashed /\ subscriber.setup = "none"
  /\ Len(clients) > 0
  /\ subscriber' = [subscriber EXCEPT !.topics = topics, !.setup = "running", !.next = 1]
  /\ subscriberFrame

\* MqttSubscriber.setupMessageHandler, which onModuleInit calls after
\* `await this.setupSubscriptions()`: the listener exists once the loop over
\* the topics has completed, and not if it threw
setupMessageHandler(sub) == sub.setup = "done"

\* one turn of the loop of setupSubscriptions: await subscribe(topic); an error
\* is logged and thrown again. The continuation of the last turn returns to
\* onModuleInit, which registers the handler in the same turn of the event
\* loop.
SetupStep ==
  /\ ~crashed /\ subscriber.setup = "running"
  /\ \E ack \in BOOLEAN :
       LET out == subscribe(subscriber.subscriptions, subscriber.topics[subscriber.next],
                            client, isConnected, ack)
           stepped ==
             IF out.result = "rejected"
             THEN [subscriber EXCEPT !.setup = "failed"]
             ELSE [subscriber EXCEPT
                     !.subscriptions = out.subscriptions,
                     !.next = @ + 1,
                     !.setup = IF subscriber.next = Len(subscriber.topics)
                               THEN "done" ELSE "running"] IN
       subscriber' = [stepped EXCEPT !.messageHandler = setupMessageHandler(stepped)]
  /\ subscriberFrame

\* mqtt.js emits 'message' on this.client for a granted subscription and
\* MqttClient forwards it with this.emit('message', topic, payload): the
\* listener of MqttSubscriber takes it if there is one, else nobody does
OnMessage(topic) ==
  /\ ~crashed /\ client # null
  /\ clients[client].state = "connected"
  /\ topic \in subscriber.subscriptions
  /\ subscriber' = [subscriber EXCEPT
                      !.inbound = [topic |-> topic, handled |-> subscriber.messageHandler]]
  /\ subscriberFrame

RaceCall(op, raceId, topic, out) ==
  [op |-> op, raceId |-> raceId, topic |-> topic, sent |-> out.sent, result |-> out.result]

\* MqttSubscriber.subscribeToRace
SubscribeToRace(raceId) ==
  /\ ~crashed /\ subscriber.setup = "done" /\ subscriber.teardown = "none"
  /\ \E ack \in BOOLEAN :
       LET topic == getRaceTopicPattern(raceId)
           out == subscribe(subscriber.subscriptions, topic, client, isConnected, ack) IN
       subscriber' = [subscriber EXCEPT
                        !.subscriptions = out.subscriptions,
                        !.call = RaceCall("subscribeToRace", raceId, topic, out)]
  /\ subscriberFrame

\* MqttSubscriber.unsubscribeFromRace
UnsubscribeFromRace(raceId) ==
  /\ ~crashed /\ subscriber.setup = "done" /\ subscriber.teardown = "none"
  /\ \E ack \in BOOLEAN :
       LET topic == getRaceTopicPattern(raceId)
           out == unsubscribe(subscriber.subscriptions, topic, client, isConnected, ack) IN
       subscriber' = [subscriber EXCEPT
                        !.subscriptions = out.subscriptions,
                        !.call = RaceCall("unsubscribeFromRace", raceId, topic, out)]
  /\ subscriberFrame

\* MqttSubscriber.onModuleDestroy: teardownSubscriptions reads the topics again
TeardownSubscriptions ==
  /\ ~crashed /\ subscriber.setup = "done" /\ subscriber.teardown = "none"
  /\ subscriber' = [subscriber EXCEPT !.teardown = "running", !.next = 1]
  /\ subscriberFrame

\* the catch around the whole loop: warn, and the function returns
afterUnsubscribeError(sub) == [sub EXCEPT !.teardown = "done"]

\* one turn of the loop of teardownSubscriptions: await unsubscribe(topic)
TeardownStep ==
  /\ ~crashed /\ subscriber.teardown = "running"
  /\ \E ack \in BOOLEAN :
       LET topic == subscriber.topics[subscriber.next]
           out == unsubscribe(subscriber.subscriptions, topic, client, isConnected, ack)
           called == [subscriber EXCEPT !.attempted = @ \cup {topic},
                                        !.subscriptions = out.subscriptions] IN
       subscriber' =
         IF out.result = "rejected"
         THEN afterUnsubscribeError(called)
         ELSE [called EXCEPT
                 !.next = @ + 1,
                 !.teardown = IF subscriber.next = Len(subscriber.topics)
                              THEN "done" ELSE "running"]
  /\ subscriberFrame

\* the subscriber over a connection that comes up, closes and retries
SubscriberNext ==
  \/ OnModuleInit
  \/ \E k \in 1..MaxClients : LinkUp(k)
  \/ \E k \in 1..MaxClients : LinkClose(k)
  \/ \E k \in 1..MaxClients : LinkReconnect(k)
  \/ \E topics \in TopicConfigs : SetupSubscriptions(topics)
  \/ SetupStep
  \/ \E topic \in TopicFilters : OnMessage(topic)
  \/ \E raceId \in Races : SubscribeToRace(raceId)
  \/ \E raceId \in Races : UnsubscribeFromRace(raceId)
  \/ TeardownSubscriptions
  \/ TeardownStep

SubscriberSpec == Init /\ [][SubscriberNext]_vars

\* ------------------------------------------------------ TrackingRepository
MaxCalls == 1

\* mapSqlError(operation): the StorageError a failed statement is turned into
mapSqlError(operation) == [tag |-> "StorageError", operation |-> operation]

\* SELECT MAX(id) ... WHERE race_id = raceId GROUP BY participant_id, then
\* SELECT * WHERE id IN (ids): id is the random uuid of the row
findLatestByRace(rs, raceId) ==
  LET inRace == {k \in DOMAIN rs : rs[k].raceId = raceId}
      group(p) == {rs[k].id : k \in {j \in inRace : rs[j].participantId = p}}
      maxId(p) == CHOOSE id \in group(p) : \A other \in group(p) : other <= id
      ids == {maxId(rs[k].participantId) : k \in inRace}
  IN {rs[k] : k \in {j \in DOMAIN rs : rs[j].id \in ids}}

\* mutant: rows stamped exactly at the cutoff go too
deleteOlderThan_Inclusive(rs, date) ==
  SelectSeq(rs, LAMBDA r : ~(r.clientTimestamp <= date))

\* DELETE ... WHERE client_timestamp < date: the rows that stay
deleteOlderThan(rs, date) ==
  SelectSeq(rs, LAMBDA r : ~(r.clientTimestamp < date))

\* DELETE ... WHERE race_id = raceId: the rows that stay
deleteByRace(rs, raceId) ==
  SelectSeq(rs, LAMBDA r : ~(r.raceId = raceId))

Cutoffs == {Epoch0, Epoch0 + 1, FutureMs, FutureMs + 1}

FindLatestByRace(raceId) ==
  /\ ~crashed /\ repository.calls < MaxCalls
  /\ \/ repository' = [calls |-> repository.calls + 1, op |-> "findLatestByRace",
                       arg |-> raceId, tag |-> "ok",
                       returned |-> findLatestByRace(rows, raceId)]
     \/ repository' = [calls |-> repository.calls + 1, op |-> "findLatestByRace",
                       arg |-> raceId, tag |-> mapSqlError("findLatestByRace").tag,
                       returned |-> null]
  /\ UNCHANGED <<pipelineVars, gatewayVars, mqttVars, batch, subscriber>>

\* .returning({id}) then rows.length: the number of rows deleted
DeleteOlderThan(date) ==
  /\ ~crashed /\ repository.calls < MaxCalls
  /\ \/ /\ rows' = deleteOlderThan(rows, date)
        /\ repository' = [calls |-> repository.calls + 1, op |-> "deleteOlderThan",
                          arg |-> date, tag |-> "ok",
                          returned |-> Len(rows) - Len(rows')]
     \/ /\ rows' = rows
        /\ repository' = [calls |-> repository.calls + 1, op |-> "deleteOlderThan",
                          arg |-> date, tag |-> mapSqlError("deleteOlderThan").tag,
                          returned |-> null]
  /\ UNCHANGED <<build, now, handlerRegistered, crashed, runs, cache, cacheWriter,
                 gatewayVars, mqttVars, batch, subscriber>>

DeleteByRace(raceId) ==
  /\ ~crashed /\ repository.calls < MaxCalls
  /\ \/ /\ rows' = deleteByRace(rows, raceId)
        /\ repository' = [calls |-> repository.calls + 1, op |-> "deleteByRace",
                          arg |-> raceId, tag |-> "ok",
                          returned |-> Len(rows) - Len(rows')]
     \/ /\ rows' = rows
        /\ repository' = [calls |-> repository.calls + 1, op |-> "deleteByRace",
                          arg |-> raceId, tag |-> mapSqlError("deleteByRace").tag,
                          returned |-> null]
  /\ UNCHANGED <<build, now, handlerRegistered, crashed, runs, cache, cacheWriter,
                 gatewayVars, mqttVars, batch, subscriber>>

\* reports of two participants of one race, of a second race, and a later one
Reports ==
  {BasePayload(r, "P1", Epoch0) : r \in Races}
  \cup {BasePayload("R1", "P2", Epoch0), BasePayload("R1", "P1", FutureMs)}

\* the pipeline at work while reporting callers query and clean up
RepositoryNext ==
  \/ Tick
  \/ \E i \in RunIds, m \in Reports : HandleMessage(i, m)
  \/ \E i \in RunIds : RedisSetOk(i)
  \/ \E i \in RunIds : RedisSetFail(i)
  \/ \E i \in RunIds : RedisSetLate(i)
  \/ \E i \in RunIds : PgInsertOk(i)
  \/ \E i \in RunIds : PgInsertFail(i)
  \/ \E i \in RunIds : PgInsertLate(i)
  \/ \E i \in RunIds : Broadcast(i)
  \/ \E i \in RunIds : BroadcastThrows(i)
  \/ \E raceId \in Races : FindLatestByRace(raceId)
  \/ \E date \in Cutoffs : DeleteOlderThan(date)
  \/ \E raceId \in Races : DeleteByRace(raceId)

RepositorySpec == Init /\ [][RepositoryNext]_vars

\* =================================================================== claims
Arrived(i) == runs[i].pc # "idle"
Failed(i) == runs[i].pc \in {"dropped", "rejected", "threw"}
Completes(i) == runs[i].pc = "writing" /\ runs'[i].pc = "done"
CacheHolds(c, position) ==
  /\ getPositionKey(KeyOf(position)) \in DOMAIN c
  /\ c[getPositionKey(KeyOf(position))].value = JSONstringify(position)
\* a row with the position's values, coordinates at the column's 7 decimals
RowOf(rs, position) ==
  \E k \in DOMAIN rs : rs[k] = NewRow(rs[k].id, position)

\* C1: the broadcast callback is invoked for a position only when both its
\* cache write and its durable insert have completed successfully, and every
\* event emitted is the update of such a position.
C1_BroadcastAfterBothWrites ==
  /\ \A i \in RunIds :
       runs[i].broadcast # "no" => runs[i].redis = "ok" /\ runs[i].pg = "ok"
  /\ \A k \in DOMAIN emitted : \E i \in RunIds :
       /\ runs[i].broadcast = "sent" /\ runs[i].redis = "ok" /\ runs[i].pg = "ok"
       /\ emitted[k].data = PositionWire(transformToPositionUpdate(runs[i].position))
       /\ RowOf(rows, runs[i].position)

\* a position was broadcast while another run's insert failed after its cache
\* write had landed
C1_Witness ==
  \E i, j \in RunIds :
    /\ runs[i].broadcast = "sent" /\ Len(emitted) = 1
    /\ runs[j].pg = "failed" /\ runs[j].redis = "ok" /\ runs[j].broadcast = "no"

\* C2 as stated: in every interleaving, when the processing of an accepted
\* payload completes, the cache entry of its key equals its ProcessedPosition
\* and the durable store holds a row with its values.
C2_CacheEqualsJustProcessed ==
  [][\A i \in RunIds :
       Completes(i) =>
         CacheHolds(cache', runs[i].position) /\ RowOf(rows', runs[i].position)]_vars

\* C2 amended: at completion the durable store holds the row, and the cache
\* entry of the key holds the position whose cache write landed last: the
\* completing run's own unless another run wrote the same key after it.
C2_CacheHoldsLastWrite ==
  [][\A i \in RunIds :
       Completes(i) =>
         LET key == getPositionKey(KeyOf(runs[i].position)) IN
         /\ RowOf(rows', runs[i].position)
         /\ key \in DOMAIN cache' /\ key \in DOMAIN cacheWriter'
         /\ cache'[key].value = JSONstringify(runs[cacheWriter'[key]].position)
         /\ cacheWriter'[key] = i => CacheHolds(cache', runs[i].position)
         /\ cacheWriter'[key] # i =>
              /\ KeyOf(runs[cacheWriter'[key]].position) = KeyOf(runs[i].position)
              /\ runs[cacheWriter'[key]].redis \in {"ok", "landed"}]_vars

\* a run is complete while the cache holds the other run's position for its key
C2_Witness ==
  \E i, j \in RunIds :
    /\ i # j /\ runs[i].pc = "done" /\ runs[j].position # NoPosition
    /\ KeyOf(runs[i].position) = KeyOf(runs[j].position)
    /\ runs[i].position # runs[j].position
    /\ cacheWriter[getPositionKey(KeyOf(runs[i].position))] = j
    /\ CacheHolds(cache, runs[j].position)
    /\ RowOf(rows, runs[i].position)

\* x lies outside [lo, hi] whole degrees
Outside(x, lo, hi) == x.deg < lo \/ x.deg > hi \/ (x.deg = hi /\ x.frac # 0)
OutOfRange(m) ==
  /\ m.t = "object"
  /\ \/ IsNum(m.latitude) /\ Outside(m.latitude, -90, 90)
     \/ IsNum(m.longitude) /\ Outside(m.longitude, -180, 180)

\* C3: a payload whose latitude is outside [-90, 90] or whose longitude is
\* outside [-180, 180] is rejected with InvalidCoordinatesError or
\* PayloadValidationError, and neither store write nor the broadcast is invoked.
C3_OutOfRangeRejected ==
  \A i \in RunIds :
    Arrived(i) /\ OutOfRange(runs[i].msg) =>
      /\ runs[i].pc = "rejected"
      /\ runs[i].tag \in {"InvalidCoordinatesError", "PayloadValidationError"}
      /\ runs[i].redis = "none" /\ runs[i].pg = "none" /\ runs[i].broadcast = "no"

\* a latitude just above 90 was rejected, and so was a longitude below -180
C3_Witness ==
  \E i, j \in RunIds :
    /\ runs[i].pc = "rejected" /\ runs[i].msg.t = "object"
    /\ runs[i].msg.latitude = JNum(90, 1)
    /\ runs[j].pc = "rejected" /\ runs[j].msg.t = "object"
    /\ runs[j].msg.longitude = JNum(-181, 0) /\ runs[j].msg.latitude = Lat0

PassesStages123(i) ==
  /\ Arrived(i) /\ runs[i].pc # "dropped"
  /\ validatePayload(build, runs[i].msg)
  /\ parseTimestamp(runs[i].msg.timestamp).ok
  /\ validateCoordinates(runs[i].msg.latitude, runs[i].msg.longitude)
Age(i) == runs[i].now - runs[i].msg.timestamp.v.ms

\* C4: a payload that passes stages 1 to 3 fails with StaleDataError exactly
\* when now - clientTimestamp > staleDataThresholdMs (an age equal to the
\* threshold is accepted); a stale payload causes no write and no broadcast.
C4_StaleExactlyAboveThreshold ==
  \A i \in RunIds :
    PassesStages123(i) =>
      /\ (runs[i].tag = "StaleDataError") <=> (Age(i) > 30000)
      /\ Age(i) > 30000 =>
           /\ runs[i].pc = "rejected"
           /\ runs[i].redis = "none" /\ runs[i].pg = "none"
           /\ runs[i].broadcast = "no"
      /\ Age(i) <= 30000 => runs[i].redis # "none" /\ runs[i].pg # "none"

\* a report exactly as old as the threshold was recorded and broadcast, and a
\* report one millisecond older was dropped as stale
C4_Witness ==
  \E i, j \in RunIds :
    /\ PassesStages123(i) /\ Age(i) = 30000 /\ runs[i].pc = "done"
    /\ PassesStages123(j) /\ Age(j) = 30001 /\ runs[j].tag = "StaleDataError"

\* C5: when a write of the dual write fails, the run fails with a StorageError
\* whose operation names the failed write (setLastPosition for the cache,
\* saveToPostgres for the durable store), processTrackingPayload returns null
\* and the broadcast callback is not invoked.
C5_StorageErrorNamesFailedWrite ==
  \A i \in RunIds :
    (runs[i].redis = "failed" \/ runs[i].pg = "failed") =>
      /\ runs[i].pc = "rejected" /\ runs[i].tag = "StorageError"
      /\ runs[i].redis = "failed" => runs[i].operation = "setLastPosition"
      /\ runs[i].pg = "failed" => runs[i].operation = "saveToPostgres"
      /\ runs[i].returned = "null"
      /\ runs[i].broadcast = "no"
      /\ Len(emitted) = Cardinality({j \in RunIds : runs[j].broadcast = "sent"})

\* one run failed on the cache write, another on the insert
C5_Witness ==
  \E i, j \in RunIds :
    /\ runs[i].redis = "failed" /\ runs[i].returned = "null"
    /\ runs[j].pg = "failed" /\ runs[j].returned = "null"

NextIdle(j) == runs[j].pc = "idle" /\ \A k \in RunIds : k < j => runs[k].pc # "idle"

\* C6: after a message whose handling failed (undecodable JSON, a rejection, a
\* StorageError, an exception of the broadcast callback) the handler is still
\* registered, the process is alive, the next message is taken and every run
\* in progress can go on.
C6_FailureDoesNotStopTheStream ==
  (\E i \in RunIds : Failed(i)) =>
    /\ handlerRegistered /\ ~crashed
    /\ \A j \in RunIds : NextIdle(j) => ENABLED HandleMessage(j, P0)
    /\ \A j \in RunIds :
         runs[j].pc = "writing" =>
           ENABLED (RedisSetOk(j) \/ PgInsertOk(j) \/ Broadcast(j))

\* a valid message was processed to completion after the broadcast of the
\* message before it had thrown
C6_Witness ==
  \E i, j \in RunIds :
    /\ i < j /\ runs[i].pc = "threw" /\ runs[j].pc = "done"

\* ------------------------------------------------------- gateway claims
\* the request handled in this step
Handled(event) == wsReply'.event = event
ValidRaceId(data) ==
  data.t = "object" /\ data.raceId.t = "string" /\ data.raceId.v # ""
InRoom(rs, c, raceId) == ("race:" \o raceId) \in DOMAIN rs /\ c \in rs["race:" \o raceId]
\* the race a broadcast event is addressed to
RaceOfEvent(e) == e.data.raceId

\* C7: a position_update or batch_position_update addressed to race B is
\* delivered only to connections that are members of room race:B when it is
\* emitted, and a connection is a member of race:B only while B is in its
\* membership set: not when it subscribed to another race only, nor after it
\* unsubscribed from B or disconnected.
C7_RoomIsolation ==
  [][\A c \in Conns : \A k \in inbox'[c] \ inbox[c] :
       /\ k \in DOMAIN emitted' /\ k \notin DOMAIN emitted
       /\ Connected(c)
       /\ RaceOfEvent(emitted'[k]) \in subscribedClients[c]
       /\ InRoom(rooms, c, RaceOfEvent(emitted'[k]))]_vars

\* a broadcast for R2 reached a member of race:R2 and not the connection that
\* is subscribed to R1 only
C7_Witness ==
  \E c, d \in Conns :
    /\ Connected(c) /\ Connected(d) /\ c # d
    /\ subscribedClients[c] = {"R1"} /\ inbox[c] = {}
    /\ "R2" \in subscribedClients[d]
    /\ \E k \in inbox[d] : RaceOfEvent(emitted[k]) = "R2"

\* C8: subscribe_race with a raceId that is missing, no string or empty is
\* answered success=false and changes no membership; with a non-empty raceId
\* the connection joins room race:{raceId}, the raceId joins its set, nothing
\* else changes, and the answer is success=true naming the raceId.
C8_SubscribeRace ==
  [][Handled("subscribe_race") =>
       LET c == wsReply'.conn
           data == wsReply'.data
           r == wsReply'.response
       IN /\ r.event = "subscribe_race_response"
          /\ IF ~ValidRaceId(data)
             THEN /\ r.success = FALSE /\ r.raceId = JUndef
                  /\ subscribedClients' = subscribedClients
                  /\ rooms' = rooms
             ELSE /\ r.success = TRUE /\ r.raceId = JStr(data.raceId.v)
                  /\ subscribedClients'[c] = subscribedClients[c] \cup {data.raceId.v}
                  /\ InRoom(rooms', c, data.raceId.v)
                  /\ \A d \in Conns \ {c} :
                       /\ Connected(d) => subscribedClients'[d] = subscribedClients[d]
                       /\ \A x \in Races : InRoom(rooms', d, x) <=> InRoom(rooms, d, x)
                  /\ \A x \in Races \ {data.raceId.v} :
                       InRoom(rooms', c, x) <=> InRoom(rooms, c, x)]_vars

\* a subscribe with an empty raceId was refused on a connection that keeps its
\* membership of R1
C8_Witness ==
  /\ wsReply.event = "subscribe_race" /\ wsReply.response.success = FALSE
  /\ wsReply.data.t = "object" /\ wsReply.data.raceId = JStr("")
  /\ Connected(wsReply.conn) /\ subscribedClients[wsReply.conn] = {"R1"}
  /\ InRoom(rooms, wsReply.conn, "R1")

\* C9 as stated: every unsubscribe_race request is acknowledged with
\* success=true, whatever its payload.
C9_UnsubscribeAlwaysSucceeds ==
  wsReply.event = "unsubscribe_race" =>
    wsReply.response.event = "unsubscribe_race_response" /\ wsReply.response.success = TRUE

\* C9 amended: an unsubscribe_race request that carries a non-empty string
\* raceId is acknowledged with success=true naming the raceId, whatever the
\* connection's membership; a request without one is answered success=false
\* and changes no membership.
C9_UnsubscribeAcknowledged ==
  [][Handled("unsubscribe_race") =>
       LET r == wsReply'.response IN
       /\ r.event = "unsubscribe_race_response"
       /\ IF ValidRaceId(wsReply'.data)
          THEN r.success = TRUE /\ r.raceId = JStr(wsReply'.data.raceId.v)
          ELSE /\ r.success = FALSE /\ r.raceId = JUndef
               /\ subscribedClients' = subscribedClients /\ rooms' = rooms]_vars

\* an unsubscribe from R2 was acknowledged on a connection that is subscribed
\* to R1 only
C9_Witness ==
  /\ wsReply.event = "unsubscribe_race" /\ wsReply.response.success = TRUE
  /\ wsReply.response.raceId = JStr("R2")
  /\ subscribedClients[wsReply.conn] = {"R1"}

\* C10: unsubscribing from a race the connection is not subscribed to returns
\* success and leaves every membership set and every room as it was; after an
\* unsubscribe the connection is not subscribed to the race, so a second
\* unsubscribe changes nothing more.
C10_UnsubscribeIdempotent ==
  [][Handled("unsubscribe_race") /\ ValidRaceId(wsReply'.data) =>
       LET c == wsReply'.conn
           raceId == wsReply'.data.raceId.v
       IN /\ wsReply'.response.success = TRUE
          /\ raceId \notin subscribedClients'[c]
          /\ ~InRoom(rooms', c, raceId)
          /\ (raceId \notin subscribedClients[c] /\ ~InRoom(rooms, c, raceId)) =>
               subscribedClients' = subscribedClients /\ rooms' = rooms]_vars

\* an unsubscribe from R2 succeeded on a connection subscribed to R1 only,
\* while another connection is a member of race:R2
C10_Witness ==
  /\ wsReply.event = "unsubscribe_race" /\ wsReply.response.success = TRUE
  /\ wsReply.response.raceId = JStr("R2")
  /\ subscribedClients[wsReply.conn] = {"R1"} /\ InRoom(rooms, wsReply.conn, "R1")
  /\ \E d \in Conns \ {wsReply.conn} : InRoom(rooms, d, "R2")

\* C11: after handleDisconnect the connection is in no room and has no entry
\* in subscribedClients, whatever it subscribed to or unsubscribed from
\* before; a connection that is not connected is in no room; a newly accepted
\* connection starts with an empty membership set.
C11_DisconnectClearsMembership ==
  [][/\ Handled("disconnect") =>
          /\ wsReply'.conn \notin DOMAIN subscribedClients'
          /\ \A n \in DOMAIN rooms' : wsReply'.conn \notin rooms'[n]
     /\ Handled("connection") =>
          /\ wsReply'.conn \in DOMAIN subscribedClients'
          /\ subscribedClients'[wsReply'.conn] = {}
          /\ \A n \in DOMAIN rooms' : wsReply'.conn \notin rooms'[n]]_vars

\* a connection that had received a broadcast, so was subscribed, has
\* disconnected while the other connection stays in its room
C11_Witness ==
  /\ wsReply.event = "disconnect"
  /\ inbox[wsReply.conn] # {}
  /\ ~Connected(wsReply.conn)
  /\ \E d \in Conns \ {wsReply.conn} : Connected(d) /\ subscribedClients[d] # {}

MqttHandled(kind) == mqttEvent'.kind = kind /\ mqttEvent' # mqttEvent
\* client k's first connection attempt has neither succeeded nor been given up
InFlight(k) == promises[k] = "pending" /\ clients[k].state # "ended"

\* C13: while a connection attempt is in flight, a call of connect() returns
\* the pending promise of that attempt and opens no further mqtt.js client.
C13_ConnectSharesInFlightAttempt ==
  [][MqttHandled("connect()") /\ (\E k \in DOMAIN clients : InFlight(k)) =>
       /\ ~mqttEvent'.opened
       /\ Len(clients') = Len(clients)
       /\ mqttEvent'.returned # null
       /\ InFlight(mqttEvent'.returned)]_vars

\* C14: when mqtt.js reports a successful reconnection of a client whose
\* connection had closed, MqttClient emits 'connected' and isConnected is
\* true again.
C14_ReconnectRestoresConnected ==
  [][MqttHandled("connect") /\ clients[mqttEvent'.client].state = "reconnecting" =>
       /\ mqttEvent'.emits = <<"connected">>
       /\ isConnected']_vars

\* C15: the reconnect counter never passes maxReconnectAttempts; once it has
\* reached it every mqtt.js client is ended and none can start another
\* attempt.
C15_ReconnectCapEndsRetries ==
  /\ reconnectAttempts <= maxReconnectAttempts
  /\ reconnectAttempts >= maxReconnectAttempts =>
       \A k \in DOMAIN clients :
         /\ clients[k].state = "ended"
         /\ ~ENABLED LinkReconnect(k)
         /\ ~ENABLED LinkUp(k)

\* the tenth attempt in a row has just been counted and the client is ended
C15_Witness ==
  /\ mqttEvent.kind = "reconnect"
  /\ reconnectAttempts = maxReconnectAttempts
  /\ client # null /\ clients[client].state = "ended"
  /\ ~isConnected

\* C16: the step in which the reconnect counter reaches the cap emits an
\* event on the MqttClient, rejects a promise or raises an error.
C16_CapExceededIsSurfaced ==
  [][reconnectAttempts < maxReconnectAttempts /\ reconnectAttempts' >= maxReconnectAttempts =>
       \/ mqttEvent'.emits # << >>
       \/ \E k \in DOMAIN promises : promises[k] # "rejected" /\ promises'[k] = "rejected"
       \/ mqttEvent'.result \in {"rejected", "uncaught"}]_vars

Absent == client = null \/ clients[client].state # "connected"

\* C17 as stated: unsubscribe(topic) called while the underlying connection is
\* absent or not connected fails with an error.
C17_UnsubscribeFailsWhenNotConnected ==
  [][MqttHandled("unsubscribe()") /\ Absent => mqttEvent'.result = "rejected"]_vars

\* C17 amended: unsubscribe(topic) called while MqttClient holds no client or
\* its isConnected flag is false sends nothing and completes successfully;
\* otherwise the unsubscribe is sent and the call completes successfully
\* exactly when the broker acknowledged it, and fails otherwise. The call
\* changes nothing else.
C17_UnsubscribeSkipsWhenNotConnected ==
  [][MqttHandled("unsubscribe()") =>
       /\ IF client = null \/ ~isConnected
          THEN ~mqttEvent'.sent /\ mqttEvent'.result = "resolved"
          ELSE /\ mqttEvent'.sent
               /\ mqttEvent'.result \in {"resolved", "rejected"}
               /\ mqttEvent'.result = "resolved" <=> mqttEvent'.acked
       /\ UNCHANGED <<clients, client, isConnected, reconnectAttempts,
                      connectionPromise, promises>>]_vars

\* an unsubscribe was skipped and reported as done while the connection of the
\* client is closed
C17_Witness ==
  /\ mqttEvent.kind = "unsubscribe()"
  /\ ~mqttEvent.sent /\ mqttEvent.result = "resolved"
  /\ client # null /\ clients[client].state = "closed" /\ ~isConnected

\* ---------------------------------------------------------- batch claims
BatchN == Len(batch.payloads)
\* the payloads of the batch that stage 1, 2, 3 or 4 rejects
BatchRejected ==
  {i \in 1..BatchN : ~PassesStages123(i) \/ Age(i) > staleDataThresholdMs}

C20_BroadcastFailureIsIsolated ==
  \A i \in RunIds :
    (runs[i].broadcast = "threw" /\ runs[i].redis = "ok" /\ runs[i].pg = "ok") =>
      /\ runs[i].returned = "update"
      /\ runs[i].pc = "done"

\* the six values of a payload that every record of it is to carry
SixOf(m, latitude, longitude) ==
  [ participantId |-> m.participant_id.v,
    raceId |-> m.race_id.v,
    latitude |-> latitude,
    longitude |-> longitude,
    clientTimestamp |-> parseTimestamp(m.timestamp).ms,
    status |-> m.status.v ]
SixIn(r) ==
  [ participantId |-> r.participantId, raceId |-> r.raceId,
    latitude |-> r.latitude, longitude |-> r.longitude,
    clientTimestamp |-> r.clientTimestamp, status |-> r.status ]
Returned(rn, i) == rn[i].returned = "update"
Six(m) == SixOf(m, m.latitude, m.longitude)
Six7(m) == SixOf(m, Decimal7(m.latitude), Decimal7(m.longitude))
\* the runs whose insert landed, and the runs whose broadcast was made
Inserted(rn) == {j \in RunIds : rn[j].pg \in {"ok", "landed"}}
Sent(rn) == {j \in RunIds : rn[j].broadcast = "sent"}
\* rows, and position_update events in the race's room, that carry `six`
RowsCarrying(rs, six) == {k \in DOMAIN rs : SixIn(rs[k]) = six}
EventsCarrying(es, six) ==
  {k \in DOMAIN es :
     /\ es[k].event = "position_update"
     /\ es[k].room = "race:" \o six.raceId
     /\ es[k].data = [ participantId |-> six.participantId,
                       raceId |-> six.raceId,
                       latitude |-> six.latitude,
                       longitude |-> six.longitude,
                       timestamp |-> toISOString(six.clientTimestamp),
                       status |-> six.status ]}
\* the runs whose cache SET lands in this step
Sets == {i \in RunIds : runs[i].redis \in {"pending", "interrupted"}
                        /\ runs'[i].redis \in {"ok", "landed"}}
OneCacheWriteEach ==
  /\ \A i \in RunIds : runs[i].redis \in {"ok", "landed"} => runs'[i].redis = runs[i].redis
  /\ cache' # cache => Cardinality(Sets) = 1
  /\ \A i \in Sets :
       LET m == runs[i].msg
           entry == cache'[getPositionKey([raceId |-> m.race_id.v,
                                           participantId |-> m.participant_id.v])].value
       IN /\ SixOf(m, m.latitude, m.longitude) =
               [SixIn(entry) EXCEPT !.clientTimestamp = parseTimestamp(m.timestamp).ms]
          /\ entry.clientTimestamp = toISOString(parseTimestamp(m.timestamp).ms)

\* C21 as stated: each accepted payload (its processing returns the update)
\* results in exactly one durable row, exactly one cache write and exactly one
\* position_update event in room race:{race_id}, each carrying the payload's
\* participant id, race id, latitude, longitude, client timestamp and status
\* unchanged.
C21_EachRecordCarriesPayloadUnchanged ==
  [][/\ OneCacheWriteEach
     /\ \A i \in RunIds : Returned(runs', i) =>
          LET m == runs'[i].msg
          IN /\ i \in Inserted(runs') /\ i \in Sent(runs') /\ runs'[i].redis = "ok"
             /\ Cardinality(RowsCarrying(rows', Six(m))) =
                  Cardinality({j \in Inserted(runs') : Six(runs'[j].msg) = Six(m)})
             /\ Cardinality(EventsCarrying(emitted', Six(m))) =
                  Cardinality({j \in Sent(runs') : Six(runs'[j].msg) = Six(m)})]_vars

\* C21 amended: each payload whose processing returns the update results in
\* exactly one durable row, exactly one cache write and exactly one
\* position_update event in room race:{race_id}; the cache entry and the event
\* carry the six values unchanged, the row carries latitude and longitude
\* rounded to the column's 7 decimals and the other four values unchanged.
C21_OneRowOneSetOneEvent ==
  [][/\ OneCacheWriteEach
     /\ \A i \in RunIds : Returned(runs', i) =>
          LET m == runs'[i].msg
          IN /\ i \in Inserted(runs') /\ i \in Sent(runs') /\ runs'[i].redis = "ok"
             /\ Cardinality(RowsCarrying(rows', Six7(m))) =
                  Cardinality({j \in Inserted(runs') : Six7(runs'[j].msg) = Six7(m)})
             /\ Cardinality(EventsCarrying(emitted', Six(m))) =
                  Cardinality({j \in Sent(runs') : Six(runs'[j].msg) = Six(m)})]_vars

\* the same report, finer than 7 decimals, was processed twice to the end
C21_Witness ==
  \E i, j \in RunIds :
    /\ i # j /\ Returned(runs, i) /\ Returned(runs, j) /\ runs[i].msg = runs[j].msg
    /\ Decimal7(runs[i].msg.latitude) # runs[i].msg.latitude
    /\ Len(rows) = 2 /\ Len(emitted) = 2

\* a repository call returns in this step
RepoReturns(op, arg) ==
  /\ repository'.calls = repository.calls + 1
  /\ repository'.op = op /\ repository'.arg = arg /\ repository'.tag = "ok"
SameParticipant(a, b) == a.raceId = b.raceId /\ a.participantId = b.participantId
\* per participant of the race, the row inserted last (rows is in insert order)
LatestInserted(rs, raceId) ==
  {rs[k] : k \in {j \in DOMAIN rs :
     /\ rs[j].raceId = raceId
     /\ \A l \in DOMAIN rs : SameParticipant(rs[l], rs[j]) => l <= j}}

\* C22: findLatestByRace(raceId) returns exactly one row per participant that
\* has rows in the race, and that row is the participant's most recently
\* inserted one.
C22_FindLatestReturnsLastInserted ==
  [][\A raceId \in Races :
       RepoReturns("findLatestByRace", raceId) =>
         repository'.returned = LatestInserted(rows, raceId)]_vars

\* rs without the rows at the indexes in gone, the others in their order
Without(rs, gone) ==
  SelectSeq(rs, LAMBDA r : r.id \notin {rs[k].id : k \in gone})

\* C23: deleteOlderThan(cutoff) removes exactly the rows whose client
\* timestamp is earlier than cutoff, deleteByRace(raceId) removes exactly the
\* rows of that race, and no other operation removes or changes a stored row.
C23_OnlyTheTwoDeletionsRemoveRows ==
  [][/\ \A date \in Cutoffs :
          RepoReturns("deleteOlderThan", date) =>
            rows' = Without(rows, {k \in DOMAIN rows : rows[k].clientTimestamp < date})
     /\ \A raceId \in Races :
          RepoReturns("deleteByRace", raceId) =>
            rows' = Without(rows, {k \in DOMAIN rows : rows[k].raceId = raceId})
     /\ rows' # rows =>
          \/ /\ repository'.calls = repository.calls + 1
             /\ repository'.op \in {"deleteOlderThan", "deleteByRace"}
             /\ repository'.tag = "ok"
          \/ /\ Len(rows') = Len(rows) + 1
             /\ SubSeq(rows', 1, Len(rows)) = rows]_vars

\* a retention run at the timestamp of one row removed the older row and
\* kept the row stamped exactly at the cutoff
C23_Witness ==
  /\ repository.op = "deleteOlderThan" /\ repository.tag = "ok"
  /\ repository.arg = FutureMs /\ repository.returned = 1
  /\ Len(rows) = 1 /\ rows[1].clientTimestamp = FutureMs

\* C24: getActiveRaces() is exactly the set of races whose room has at least
\* one member, getConnectedClientCount() is the number of connected
\* connections, and a connection is in room race:r exactly when r is in the
\* raceIds recorded for it.
C24_QueriesAgreeWithRooms ==
  /\ {roomName(r) : r \in getActiveRaces(subscribedClients)} =
       {n \in DOMAIN rooms : rooms[n] # {}}
  /\ getConnectedClientCount(subscribedClients) = Cardinality(DOMAIN handshake)
  /\ \A c \in Conns, r \in Races :
       InRoom(rooms, c, r) <=> (Connected(c) /\ r \in subscribedClients[c])

\* two connections are up, one has just left the only room it was in, the
\* other is still in the room of a race
C24_Witness ==
  /\ wsReply.event = "unsubscribe_race" /\ wsReply.response.success
  /\ Cardinality(DOMAIN handshake) = 2
  /\ subscribedClients[wsReply.conn] = {}
  /\ Cardinality(getActiveRaces(subscribedClients)) = 1

Range(seq) == {seq[k] : k \in DOMAIN seq}
\* a call of subscribeToRace or unsubscribeFromRace returns in this step
RaceCalled(op, raceId) ==
  /\ subscriber'.call # subscriber.call
  /\ subscriber'.call.op = op /\ subscriber'.call.raceId = raceId
Changed(a, b) == (a \ b) \cup (b \ a)

\* C25: subscribeToRace(raceId) subscribes to, and unsubscribeFromRace(raceId)
\* unsubscribes from, exactly the topic pattern tracking/{raceId}/+/position,
\* and neither changes the subscription state of any statically configured
\* startup topic pattern.
C25_RaceCallsLeaveStartupTopicsAlone ==
  [][\A raceId \in Races, op \in {"subscribeToRace", "unsubscribeFromRace"} :
       RaceCalled(op, raceId) =>
         /\ subscriber'.call.topic = "tracking/" \o raceId \o "/+/position"
         /\ Changed(subscriber.subscriptions, subscriber'.subscriptions)
              \subseteq {subscriber'.call.topic}
         /\ op = "subscribeToRace" => subscriber.subscriptions \subseteq subscriber'.subscriptions
         /\ op = "unsubscribeFromRace" => subscriber'.subscriptions \subseteq subscriber.subscriptions
         /\ \A t \in Range(subscriber.topics) :
              t \in subscriber.subscriptions <=> t \in subscriber'.subscriptions]_vars

\* C29: teardownSubscriptions attempts an unsubscribe for every configured
\* topic and completes without raising, even when the unsubscribe of an
\* earlier topic fails.
C29_TeardownAttemptsEveryTopic ==
  subscriber.teardown = "done" =>
    /\ subscriber.attempted = Range(subscriber.topics)
    /\ ~subscriber.raised

\* the _tag of the error class of stages 1 to 4, in stage order
StageTags ==
  <<"PayloadValidationError", "TimestampParseError",
    "InvalidCoordinatesError", "StaleDataError">>
\* what each stage finds for the message of run i at its arrival
Stage1(i) == validatePayload(build, runs[i].msg)
Stage2(i) == parseTimestamp(runs[i].msg.timestamp).ok
Stage3(i) == validateCoordinates(runs[i].msg.latitude, runs[i].msg.longitude)
Stage4(i) ==
  checkStaleData(parseTimestamp(runs[i].msg.timestamp).ms, runs[i].now,
                 staleDataThresholdMs)

\* C26: processTrackingData checks in the order structural validation,
\* timestamp parsing, coordinate re-validation, staleness; a rejection carries
\* the tag of the first stage that fails, whatever the later stages would
\* find, nothing after a failed stage is evaluated, and the four tags are
\* pairwise distinct.
C26_TagOfFirstFailingStage ==
  /\ Cardinality(Range(StageTags)) = 4
  /\ \A i \in RunIds :
       (Arrived(i) /\ runs[i].pc # "dropped") =>
         /\ ~Stage1(i) <=> runs[i].tag = StageTags[1]
         /\ Stage1(i) => (~Stage2(i) <=> runs[i].tag = StageTags[2])
         /\ (Stage1(i) /\ Stage2(i)) => (~Stage3(i) <=> runs[i].tag = StageTags[3])
         /\ (Stage1(i) /\ Stage2(i) /\ Stage3(i)) =>
              (~Stage4(i) <=> runs[i].tag = StageTags[4])
         /\ runs[i].tag \in Range(StageTags) =>
              /\ runs[i].position = NoPosition
              /\ runs[i].redis = "none" /\ runs[i].pg = "none"
              /\ runs[i].broadcast = "no"

\* a report with latitude 200 that is also older than the threshold was
\* rejected for its structure, and one whose timestamp has the shape of a date
\* but names no instant was rejected at timestamp parsing
C26_Witness ==
  \E i, j \in RunIds :
    /\ runs[i].msg = [P0 EXCEPT !.latitude = JNum(200, 0)]
    /\ runs[i].now - Epoch0 > staleDataThresholdMs
    /\ runs[i].tag = "PayloadValidationError"
    /\ runs[j].tag = "TimestampParseError"

\* both writes of the run are through and its processing is over
Recorded(i) == runs[i].pc \in {"done", "threw"} /\ DualWriteSucceeded(runs[i])

\* C27: when two accepted reports for the same (race, participant) are
\* processed concurrently, both are inserted, and once both runs have
\* completed the cache entry of the key equals the report whose cache write
\* completed last, whatever the client timestamps of the two reports.
C27_CacheHoldsLastCompletedWrite ==
  \A i, j \in RunIds :
    (i # j /\ Recorded(i) /\ Recorded(j)
       /\ KeyOf(runs[i].position) = KeyOf(runs[j].position)) =>
      LET key == getPositionKey(KeyOf(runs[i].position)) IN
      /\ Cardinality(RowsCarrying(rows, Six7(runs[i].msg))
                     \cup RowsCarrying(rows, Six7(runs[j].msg))) >= 2
      /\ RowOf(rows, runs[i].position) /\ RowOf(rows, runs[j].position)
      /\ key \in DOMAIN cache /\ key \in DOMAIN cacheWriter
      /\ runs[cacheWriter[key]].redis \in {"ok", "landed"}
      /\ KeyOf(runs[cacheWriter[key]].position) = KeyOf(runs[i].position)
      /\ cache[key].value = JSONstringify(runs[cacheWriter[key]].position)
      /\ (\A k \in RunIds \ {i, j} :
            \/ runs[k].position = NoPosition
            \/ KeyOf(runs[k].position) # KeyOf(runs[i].position))
           => cacheWriter[key] \in {i, j}

\* the report with the earlier client timestamp wrote the cache last and is
\* what the cache holds once both runs are through
C27_Witness ==
  \E i, j \in RunIds :
    /\ i # j /\ Recorded(i) /\ Recorded(j)
    /\ KeyOf(runs[i].position) = KeyOf(runs[j].position)
    /\ runs[i].position.clientTimestamp > runs[j].position.clientTimestamp
    /\ cacheWriter[getPositionKey(KeyOf(runs[j].position))] = j
    /\ CacheHolds(cache, runs[j].position)
    /\ Len(rows) = 2

\* C28: every payload that passes structural validation ends either in a
\* rejection or in the fully recorded-and-broadcast state, provided each store
\* write completes; no run is cancelled or left suspended midway. Stated on
\* the runs that have ended: each is a tagged rejection or has been recorded in
\* both stores and broadcast.
C28_EndsInRejectionOrBroadcast ==
  \A i \in RunIds :
    (Arrived(i) /\ Stage1(i) /\ runs[i].pc # "writing") =>
      \/ runs[i].pc = "rejected" /\ runs[i].returned = "null"
      \/ /\ runs[i].pc = "done" /\ DualWriteSucceeded(runs[i])
         /\ runs[i].broadcast = "sent"

\* syslog order of the logger methods
Severity(level) ==
  CASE level = "debug" -> 0
    [] level = "log" -> 1
    [] level = "warn" -> 2
    [] level = "error" -> 3

\* C30: a StaleDataError rejection is logged at a strictly lower severity
\* (informational) than a PayloadValidationError or InvalidCoordinatesError
\* rejection (warning).
C30_StaleLoggedBelowValidation ==
  \A i \in RunIds :
    runs[i].tag = "StaleDataError" =>
      /\ Severity(runs[i].level) < Severity(LogLevel("PayloadValidationError"))
      /\ Severity(runs[i].level) < Severity(LogLevel("InvalidCoordinatesError"))

\* ------------------------------------------- MqttClient claims, continued
\* C31: every successful connection or reconnection leaves the reconnect
\* counter at zero, so that the cap counts the consecutive failed attempts of
\* one outage only.
C31_CounterZeroAfterEveryConnection ==
  mqttEvent.kind = "connect" => reconnectAttempts = 0

\* an mqtt.js client that was not ended: connected, attempting, or waiting
\* for its next automatic attempt
NotEnded(k) == clients[k].state # "ended"

\* C32: after any sequence of connect() and disconnect() calls and of close
\* and reconnect events, at most one mqtt.js client has not been ended.
C32_AtMostOneClientNotEnded ==
  Cardinality({k \in DOMAIN clients : NotEnded(k)}) <= 1

\* C33: an error of the first connection attempt, before the client was ever
\* connected, rejects the promise connect() returned and clears the pending
\* attempt, and raises no uncaught exception.
C33_InitialErrorRejectsConnect ==
  [][MqttHandled("error") /\ InFlight(mqttEvent'.client)
       /\ clients[mqttEvent'.client].connectArmed =>
       /\ promises'[mqttEvent'.client] = "rejected"
       /\ connectionPromise' = null
       /\ ~crashed']_vars

\* --------------------------------------- MqttSubscriber claims, continued
\* C34: no inbound message for a startup subscription is discarded for lack of
\* a registered handler: whenever MqttClient forwards a 'message' event for a
\* configured topic, the listener of MqttSubscriber is there to take it.
C34_HandlerBeforeFirstDelivery ==
  subscriber.inbound.topic \in Range(subscriber.topics) => subscriber.inbound.handled

\* ------------------------------------------------------ cache key claims
\* reports whose identifiers are non-empty strings that contain the
\* separators of the key template, next to two plain ones
KeyReports ==
  { BasePayload("R1", "P1:participant:P2", Epoch0),
    BasePayload("R1:participant:P1", "P2", Epoch0),
    BasePayload("R1", "P1", Epoch0),
    BasePayload("R1", "P2", Epoch0) }

\* the pipeline recording such reports, every write succeeding
CacheKeyNext ==
  \/ Tick
  \/ \E i \in RunIds, m \in KeyReports : HandleMessage(i, m)
  \/ \E i \in RunIds : RedisSetOk(i)
  \/ \E i \in RunIds : PgInsertOk(i)
  \/ \E i \in RunIds : Broadcast(i)

CacheKeySpec == Init /\ [][CacheKeyNext]_vars

\* C35: the cache key function is injective on RaceParticipantKey: two
\* accepted reports whose (raceId, participantId) pairs differ never get the
\* same key race:{raceId}:participant:{participantId}:last.
C35_CacheKeyInjective ==
  \A i, j \in RunIds :
    ( /\ runs[i].position # NoPosition /\ runs[j].position # NoPosition
      /\ KeyOf(runs[i].position) # KeyOf(runs[j].position) ) =>
      getPositionKey(KeyOf(runs[i].position)) # getPositionKey(KeyOf(runs[j].position))

\* -------------------------------------------------- batch broadcast claims
BatchEvents == {k \in DOMAIN emitted : emitted[k].event = "batch_position_update"}
\* the positions array of the event made from the updates given
WireOf(updates) == [k \in DOMAIN updates |-> BatchWire(updates[k])]

\* C36 as claimed: every position delivered inside a batch_position_update
\* event for race R comes from an update whose own raceId is R.
C36_BatchPositionsOfOwnRace ==
  \A k \in BatchEvents, updates \in Batches :
    emitted[k].data.positions = WireOf(updates) =>
      \A j \in DOMAIN updates : updates[j].raceId = emitted[k].data.raceId

\* C36: a batch_position_update event goes to the room of the raceId the call
\* names and carries that raceId and the positions of all the updates the call
\* was given, in their order, whatever the raceId of each update.
C36_BatchCarriesEveryUpdateGiven ==
  \A k \in BatchEvents :
    /\ emitted[k].room = roomName(emitted[k].data.raceId)
    /\ \E updates \in Batches : emitted[k].data.positions = WireOf(updates)

\* a viewer of race R1 has received a batch event for R1 made of the two
\* updates of race R2
C36_Witness ==
  \E k \in BatchEvents, c \in DOMAIN inbox :
    /\ emitted[k].room = roomName("R1") /\ emitted[k].data.raceId = "R1"
    /\ emitted[k].data.positions = WireOf(<<UpdateOf("R2"), UpdateOf("R2")>>)
    /\ k \in inbox[c]

\* ------------------------------------------- validation claims, continued
\* C37: InvalidCoordinatesError is never produced by processTrackingData:
\* every payload with an out-of-range latitude or longitude is rejected by
\* structural validation with PayloadValidationError, and a payload that
\* reaches the coordinate re-validation stage passes it.
C37_CoordinateStageNeverFails ==
  \A i \in RunIds :
    (Arrived(i) /\ runs[i].pc # "dropped") =>
      /\ runs[i].tag # "InvalidCoordinatesError"
      /\ OutOfRange(runs[i].msg) => runs[i].tag = "PayloadValidationError"
      /\ (Stage1(i) /\ Stage2(i)) => Stage3(i)

\* a longitude just above 180 and a latitude just below -90, each of which
\* the range test of stage 3 would refuse, were rejected for their structure
C37_Witness ==
  \E i, j \in RunIds :
    /\ runs[i].msg.t = "object" /\ runs[i].msg.longitude = JNum(180, 1)
    /\ ~validateCoordinates(runs[i].msg.latitude, runs[i].msg.longitude)
    /\ runs[i].pc = "rejected" /\ runs[i].tag = "PayloadValidationError"
    /\ runs[j].msg.t = "object" /\ IsNum(runs[j].msg.latitude)
    /\ NumLt(runs[j].msg.latitude, -90)
    /\ runs[j].pc = "rejected" /\ runs[j].tag = "PayloadValidationError"

\* the client timestamp of run i's message lies ahead of the clock it met
Ahead(i) == runs[i].msg.timestamp.v.ms - runs[i].now

\* C38: a structurally valid payload whose client timestamp lies in the future
\* of the server clock, by any amount, is never rejected by the staleness
\* check: it passes every stage, both store writes are issued for it, and the
\* run that completes has recorded it in both stores and broadcast it.
C38_FutureTimestampNeverStale ==
  \A i \in RunIds :
    (Arrived(i) /\ runs[i].pc # "dropped" /\ Stage1(i) /\ Stage2(i) /\ Ahead(i) > 0) =>
      /\ Stage4(i)
      /\ runs[i].tag \notin Range(StageTags)
      /\ runs[i].position # NoPosition
      /\ runs[i].redis # "none" /\ runs[i].pg # "none"
      /\ runs[i].pc = "done" =>
           /\ RowOf(rows, runs[i].position)
           /\ getPositionKey(KeyOf(runs[i].position)) \in DOMAIN cache
           /\ runs[i].broadcast = "sent"
           /\ \E k \in DOMAIN emitted :
                emitted[k].data = PositionWire(transformToPositionUpdate(runs[i].position))

\* a report stamped further ahead of the clock than the staleness threshold
\* was recorded in both stores and broadcast
C38_Witness ==
  \E i \in RunIds :
    /\ Arrived(i) /\ runs[i].msg.t = "object" /\ Stage1(i) /\ Stage2(i)
    /\ Ahead(i) > staleDataThresholdMs
    /\ runs[i].pc = "done" /\ runs[i].broadcast = "sent"
    /\ RowOf(rows, runs[i].position) /\ CacheHolds(cache, runs[i].position)

\* ------------------------------------------------ the two implementations
\* C39: the pipe/flatMap version and the generator version of
\* processTrackingData are equivalent: for every raw payload and clock value
\* both accept or both reject, with the same rejection tag and the same
\* position handed to the store writes and the broadcast.
C39_ImplementationsAgree ==
  \A i \in RunIds :
    (Arrived(i) /\ runs[i].pc # "dropped") =>
      processTrackingData([impl |-> "gen"], runs[i].msg, runs[i].now)
        = processTrackingData([impl |-> "pipe"], runs[i].msg, runs[i].now)

====
